---- MODULE Spec2Model ----
(***************************************************************************)
(* Functional-coverage parser: the in-memory CoverageDatabase              *)
(* (src/src/coverage_database.cpp) and the parallel Groups pipeline        *)
(* (src/src/high_performance_parser.cpp).                                  *)
(*                                                                         *)
(* Conventions.  A std::string is a sequence of one-character strings, so  *)
(* the empty string is << >>.  A std::unique_ptr / raw pointer is a        *)
(* sequence of length at most one: << >> is nullptr, <<r>> points to r.    *)
(* A std::unordered_map is a function whose DOMAIN is the set of keys      *)
(* present.  An unsigned 32-bit integer is a natural number written as a   *)
(* little-endian string of base-4096 digits without leading zero digits    *)
(* (so 0 is << >>), reduced modulo 2^32 wherever the code computes in      *)
(* uint32_t.  A double that the code obtains as a quotient is kept as the  *)
(* exact fraction [num, den]; two doubles are compared as fractions.       *)
(***************************************************************************)
EXTENDS Integers, Sequences, FiniteSets, TLC

VARIABLES
    groups_table,      \* CoverageDatabase::groups_table
    hierarchy_table,   \* CoverageDatabase::hierarchy_table
    modules_table,     \* CoverageDatabase::modules_table
    asserts_table,     \* CoverageDatabase::asserts_table
    dashboard_data,    \* CoverageDatabase::dashboard_data (unique_ptr)
    is_valid,          \* CoverageDatabase::is_valid
    last_modified,     \* CoverageDatabase::last_modified
    now,               \* the system clock read by update_timestamp()
    last_call,         \* the last call that may modify the database, with its argument
    ret,               \* the value returned by the last query call
    file,              \* the input file named by filename
    num_threads,       \* std::thread::hardware_concurrency()
    hp_pc,             \* where HighPerformanceGroupsParser::parse stands
    chunks,            \* parse: chunks
    workers,           \* parse: one std::async task per chunk, with its groups vector
    stats_,            \* HighPerformanceGroupsParser::stats_
    next_future,       \* parse: the future the collecting loop waits for
    total_groups,      \* parse: total_groups
    hp_result,         \* the ParserResult of the last parse call
    first_parse,       \* groups_table as the first parse call left it
    seq_db,            \* groups_table of the database the sequential GroupsParser filled
    memory_pool_,      \* HighPerformanceGroupsParser::memory_pool_
    pool_calls,        \* the member functions of memory_pool_ called so far
    parser_handles,    \* dll_api.cpp: parser_handles
    hp_groups_parsers, \* dll_api.cpp: hp_groups_parsers
    hp_hierarchy_parsers, \* dll_api.cpp: hp_hierarchy_parsers
    hp_assert_parsers, \* dll_api.cpp: hp_assert_parsers
    database_handles,  \* dll_api.cpp: database_handles
    next_handle_id,    \* dll_api.cpp: next_handle_id
    held_handles,      \* the caller: the handle values it was given
    mutex_,            \* MemoryPool::mutex_: the thread that holds it, 0 for none
    allocators,        \* the threads that call allocate and reset on memory_pool_
    regions            \* the regions that allocate returned since the last reset

dbvars == <<groups_table, hierarchy_table, modules_table, asserts_table,
            dashboard_data, is_valid, last_modified>>

hp_parsers == <<hp_groups_parsers, hp_hierarchy_parsers, hp_assert_parsers>>

dllvars == <<parser_handles, hp_parsers, database_handles, next_handle_id, held_handles>>

hpvars_but_handles ==
    <<file, num_threads, hp_pc, chunks, workers, stats_, next_future,
      total_groups, hp_result, first_parse, seq_db, memory_pool_, pool_calls>>

poolvars == <<mutex_, allocators, regions>>

hpvars == <<hpvars_but_handles, dllvars, poolvars>>

vars == <<groups_table, hierarchy_table, modules_table, asserts_table,
          dashboard_data, is_valid, last_modified, now, last_call, ret,
          file, num_threads, hp_pc, chunks, workers, stats_, next_future,
          total_groups, hp_result, first_parse, seq_db, memory_pool_, pool_calls, dllvars, poolvars>>

----------------------------------------------------------------------------
(* Bounds of the model *)

\* The clock takes the values 0..MaxTime.
MaxTime == 1

\* The callers keep at most MaxRecords records in a database.
MaxRecords == 3

\* The files have at most MaxLines lines.
MaxLines == 2

\* hardware_concurrency() reports 0..MaxThreads.
MaxThreads == 2

\* The strings given to the text functions have at most MaxLen characters.
MaxLen == 4

\* The boundary interface hands out the handles 1..MaxHandles.
MaxHandles == 2

\* A pool returns at most MaxAllocations regions between two resets.
MaxAllocations == 3

\* A pool has at most MaxChunks chunks: a further _aligned_malloc fails.
MaxChunks == 3

----------------------------------------------------------------------------
(* Unsigned integers of arbitrary size: little-endian base-4096 digits *)

Base == 2^12

\* 2^32 = 256 * 4096^2: a uint32_t keeps digits 0 and 1 and digit 2 modulo 256.
TopDigitMod == 2^8

RECURSIVE BigNorm(_)
BigNorm(s) ==
    IF s = << >> THEN << >>
    ELSE IF s[Len(s)] = 0 THEN BigNorm(SubSeq(s, 1, Len(s) - 1))
    ELSE s

RECURSIVE Big(_)
Big(n) == IF n = 0 THEN << >> ELSE <<n % Base>> \o Big(n \div Base)

RECURSIVE BigAddC(_, _, _)
BigAddC(a, b, carry) ==
    IF a = << >> /\ b = << >>
    THEN (IF carry = 0 THEN << >> ELSE <<carry>>)
    ELSE LET x == IF a = << >> THEN 0 ELSE Head(a)
             y == IF b = << >> THEN 0 ELSE Head(b)
             s == x + y + carry
         IN  <<s % Base>> \o BigAddC(IF a = << >> THEN << >> ELSE Tail(a),
                                     IF b = << >> THEN << >> ELSE Tail(b),
                                     s \div Base)

BigAdd(a, b) == BigNorm(BigAddC(a, b, 0))

RECURSIVE BigMulDigit(_, _, _)
BigMulDigit(a, d, carry) ==
    IF a = << >> THEN (IF carry = 0 THEN << >> ELSE <<carry>>)
    ELSE LET p == Head(a) * d + carry
         IN  <<p % Base>> \o BigMulDigit(Tail(a), d, p \div Base)

RECURSIVE BigMul(_, _)
BigMul(a, b) ==
    IF a = << >> THEN << >>
    ELSE BigAdd(BigNorm(BigMulDigit(b, Head(a), 0)),
                BigNorm(<<0>> \o BigMul(Tail(a), b)))

\* static_cast<uint32_t>: the value modulo 2^32
U32(a) ==
    BigNorm(IF Len(a) <= 2 THEN a ELSE <<a[1], a[2], a[3] % TopDigitMod>>)

\* a + b computed in uint32_t
U32Add(a, b) == U32(BigAdd(a, b))

Zero == << >>

\* 2^31
Pow31 == <<0, 0, 128>>

----------------------------------------------------------------------------
\* the number that the digits denote
RECURSIVE BigVal(_)
BigVal(a) == IF a = << >> THEN 0 ELSE Head(a) + Base * BigVal(Tail(a))

(* Doubles obtained as quotients: exact fractions *)

Fraction(n, d) == [num |-> n, den |-> d]

FZero == Fraction(Zero, Big(1))

FracEq(x, y) == BigMul(x.num, y.den) = BigMul(y.num, x.den)

----------------------------------------------------------------------------
(* Records and the inputs the callers draw them from *)

EmptyStr == << >>
nullptr == << >>

CoverageGroup(name, covered, expected, score) ==
    [name |-> name,
     coverage |-> [covered |-> covered, expected |-> expected,
                   score |-> score, is_valid |-> TRUE],
     instances |-> Zero, weight |-> Zero, goal |-> Zero, at_least |-> Zero,
     per_instance |-> Zero, auto_bin_max |-> Zero, print_missing |-> Zero,
     comment |-> EmptyStr]

HierarchyInstance(path, total_score) ==
    [instance_path |-> path, total_score |-> total_score]

ModuleDefinition(name, total_score) ==
    [module_name |-> name, total_score |-> total_score]

AssertCoverage(name, hit_count) ==
    [assert_name |-> name, hit_count |-> hit_count]

DashboardData(total_score) == [total_score |-> total_score]

\* Keys offered to the add_* calls; the empty string is the rejected key.
KeyNames == {<<"a">>, <<"b">>}
Keys == KeyNames \cup {EmptyStr}

\* covered/expected pairs of the groups offered to add_coverage_group:
\* an empty group, an uncovered one, a full one (2^31/2^31), a partial one
\* and an impossible measurement (covered > 0 with expected == 0).
GroupMetrics ==
    { <<Zero, Zero>>, <<Zero, Big(16)>>, <<Pow31, Pow31>>,
      <<Big(16), Pow31>>, <<Big(16), Zero>> }

GroupInputs ==
    { CoverageGroup(k, m[1], m[2], FZero) : k \in Keys, m \in GroupMetrics }

\* The two groups of the documented example {0/16, 128/128}.
BasicGroupInputs ==
    { CoverageGroup(k, m[1], m[2], FZero) :
        k \in Keys, m \in { <<Zero, Big(16)>>, <<Big(128), Big(128)>> } }

Scores == {Big(0), Big(75)}

HierarchyInputs == { HierarchyInstance(k, s) : k \in Keys, s \in Scores }
ModuleInputs == { ModuleDefinition(k, s) : k \in Keys, s \in Scores }
AssertInputs == { AssertCoverage(k, s) : k \in Keys, s \in Scores }

----------------------------------------------------------------------------
(* CoverageDatabase *)

\* std::unordered_map::operator[] followed by assignment
MapPut(table, key, rec) ==
    [k \in (DOMAIN table) \cup {key} |-> IF k = key THEN rec ELSE table[k]]

EmptyMap == [k \in {} |-> 0]

\* last_modified = now()
update_timestamp == last_modified' = now

find_coverage_group(name) ==
    IF name \in DOMAIN groups_table THEN <<groups_table[name]>> ELSE nullptr

find_hierarchy_instance(path) ==
    IF path \in DOMAIN hierarchy_table THEN <<hierarchy_table[path]>> ELSE nullptr

find_module_definition(name) ==
    IF name \in DOMAIN modules_table THEN <<modules_table[name]>> ELSE nullptr

find_assert_coverage(name) ==
    IF name \in DOMAIN asserts_table THEN <<asserts_table[name]>> ELSE nullptr

Call(op, arg, replaced) == [op |-> op, arg |-> arg, replaced |-> replaced]

NoRet == [op |-> "none", val |-> FALSE]

(* The add_* methods as functions of the collection: the collection after
   the call, and whether update_timestamp() ran. *)

Added(table, touched) == [table |-> table, touched |-> touched]

\* add_coverage_group with insert-if-absent (emplace) instead of operator[]
add_coverage_group_emplace(table, group) ==
    IF group # nullptr /\ group[1].name # EmptyStr
    THEN Added(IF group[1].name \in DOMAIN table THEN table
               ELSE MapPut(table, group[1].name, group[1]), TRUE)
    ELSE Added(table, FALSE)

\* add_coverage_group without the test for an empty name
add_coverage_group_unguarded(table, group) ==
    IF group # nullptr
    THEN Added(MapPut(table, group[1].name, group[1]), TRUE)
    ELSE Added(table, FALSE)

\* add_coverage_group that merges into a stored group by adding the counts
add_coverage_group_accumulate(table, group) ==
    IF group # nullptr /\ group[1].name # EmptyStr
    THEN Added(IF group[1].name \in DOMAIN table
               THEN [table EXCEPT ![group[1].name].coverage.covered =
                                      U32Add(@, group[1].coverage.covered),
                                  ![group[1].name].coverage.expected =
                                      U32Add(@, group[1].coverage.expected)]
               ELSE MapPut(table, group[1].name, group[1]), TRUE)
    ELSE Added(table, FALSE)

\* group is a unique_ptr: << >> or <<record>>
add_coverage_group(table, group) ==
    IF group # nullptr /\ group[1].name # EmptyStr
    THEN Added(MapPut(table, group[1].name, group[1]), TRUE)
    ELSE Added(table, FALSE)

add_hierarchy_instance(table, instance) ==
    IF instance # nullptr /\ instance[1].instance_path # EmptyStr
    THEN Added(MapPut(table, instance[1].instance_path, instance[1]), TRUE)
    ELSE Added(table, FALSE)

add_module_definition(table, module) ==
    IF module # nullptr /\ module[1].module_name # EmptyStr
    THEN Added(MapPut(table, module[1].module_name, module[1]), TRUE)
    ELSE Added(table, FALSE)

add_assert_coverage(table, assert_cov) ==
    IF assert_cov # nullptr /\ assert_cov[1].assert_name # EmptyStr
    THEN Added(MapPut(table, assert_cov[1].assert_name, assert_cov[1]), TRUE)
    ELSE Added(table, FALSE)

\* update_timestamp() when the call stored something: last_modified = now()
Touch(touched) == last_modified' = IF touched THEN now ELSE last_modified

(* The calls a user of the database makes *)

db_add_coverage_group(group) ==
    /\ groups_table' = add_coverage_group(groups_table, group).table
    /\ Touch(add_coverage_group(groups_table, group).touched)
    /\ last_call' = Call("add_coverage_group", group,
                         group # nullptr /\ group[1].name \in DOMAIN groups_table)
    /\ ret' = NoRet
    /\ UNCHANGED <<hierarchy_table, modules_table, asserts_table,
                   dashboard_data, is_valid, now, hpvars>>

db_add_hierarchy_instance(instance) ==
    /\ hierarchy_table' = add_hierarchy_instance(hierarchy_table, instance).table
    /\ Touch(add_hierarchy_instance(hierarchy_table, instance).touched)
    /\ last_call' = Call("add_hierarchy_instance", instance,
                         instance # nullptr
                         /\ instance[1].instance_path \in DOMAIN hierarchy_table)
    /\ ret' = NoRet
    /\ UNCHANGED <<groups_table, modules_table, asserts_table,
                   dashboard_data, is_valid, now, hpvars>>

db_add_module_definition(module) ==
    /\ modules_table' = add_module_definition(modules_table, module).table
    /\ Touch(add_module_definition(modules_table, module).touched)
    /\ last_call' = Call("add_module_definition", module,
                         module # nullptr
                         /\ module[1].module_name \in DOMAIN modules_table)
    /\ ret' = NoRet
    /\ UNCHANGED <<groups_table, hierarchy_table, asserts_table,
                   dashboard_data, is_valid, now, hpvars>>

db_add_assert_coverage(assert_cov) ==
    /\ asserts_table' = add_assert_coverage(asserts_table, assert_cov).table
    /\ Touch(add_assert_coverage(asserts_table, assert_cov).touched)
    /\ last_call' = Call("add_assert_coverage", assert_cov,
                         assert_cov # nullptr
                         /\ assert_cov[1].assert_name \in DOMAIN asserts_table)
    /\ ret' = NoRet
    /\ UNCHANGED <<groups_table, hierarchy_table, modules_table,
                   dashboard_data, is_valid, now, hpvars>>

\* db.add_dashboard_data(std::move(dashboard)): stores the dashboard record
add_dashboard_data(dashboard) ==
    /\ dashboard_data' = dashboard
    /\ update_timestamp
    /\ last_call' = Call("add_dashboard_data", dashboard, dashboard_data # nullptr)
    /\ ret' = NoRet
    /\ UNCHANGED <<groups_table, hierarchy_table, modules_table, asserts_table,
                   is_valid, now, hpvars>>

\* Is anything stored in the database?
Populated ==
    \/ dashboard_data # nullptr
    \/ DOMAIN groups_table # {} \/ DOMAIN hierarchy_table # {}
    \/ DOMAIN modules_table # {} \/ DOMAIN asserts_table # {}

\* reset without asserts_table.clear()
reset_keeps_asserts ==
    /\ dashboard_data' = nullptr
    /\ groups_table' = EmptyMap
    /\ hierarchy_table' = EmptyMap
    /\ modules_table' = EmptyMap
    /\ is_valid' = FALSE
    /\ last_modified' = now
    /\ last_call' = Call("reset", nullptr, Populated)
    /\ ret' = NoRet
    /\ UNCHANGED <<asserts_table, now, hpvars>>

reset ==
    /\ dashboard_data' = nullptr
    /\ groups_table' = EmptyMap
    /\ hierarchy_table' = EmptyMap
    /\ modules_table' = EmptyMap
    /\ asserts_table' = EmptyMap
    /\ is_valid' = FALSE
    /\ update_timestamp
    /\ last_call' = Call("reset", nullptr, Populated)
    /\ ret' = NoRet
    /\ UNCHANGED <<now, hpvars>>

\* The clock advances between calls.
Tick ==
    /\ now < MaxTime
    /\ now' = now + 1
    /\ UNCHANGED <<dbvars, last_call, ret, hpvars>>

\* A caller writes an empty name through the mutable pointer that the
\* non-const find_* returned; the map key stays what it was.
write_name_via_find_coverage_group(name) ==
    /\ find_coverage_group(name) # nullptr
    /\ groups_table' = [groups_table EXCEPT ![name].name = EmptyStr]
    /\ last_call' = Call("find_coverage_group", <<name>>, TRUE)
    /\ ret' = NoRet
    /\ UNCHANGED <<hierarchy_table, modules_table, asserts_table,
                   dashboard_data, is_valid, last_modified, now, hpvars>>

write_name_via_find_hierarchy_instance(path) ==
    /\ find_hierarchy_instance(path) # nullptr
    /\ hierarchy_table' = [hierarchy_table EXCEPT ![path].instance_path = EmptyStr]
    /\ last_call' = Call("find_hierarchy_instance", <<path>>, TRUE)
    /\ ret' = NoRet
    /\ UNCHANGED <<groups_table, modules_table, asserts_table,
                   dashboard_data, is_valid, last_modified, now, hpvars>>

write_name_via_find_module_definition(name) ==
    /\ find_module_definition(name) # nullptr
    /\ modules_table' = [modules_table EXCEPT ![name].module_name = EmptyStr]
    /\ last_call' = Call("find_module_definition", <<name>>, TRUE)
    /\ ret' = NoRet
    /\ UNCHANGED <<groups_table, hierarchy_table, asserts_table,
                   dashboard_data, is_valid, last_modified, now, hpvars>>

write_name_via_find_assert_coverage(name) ==
    /\ find_assert_coverage(name) # nullptr
    /\ asserts_table' = [asserts_table EXCEPT ![name].assert_name = EmptyStr]
    /\ last_call' = Call("find_assert_coverage", <<name>>, TRUE)
    /\ ret' = NoRet
    /\ UNCHANGED <<groups_table, hierarchy_table, modules_table,
                   dashboard_data, is_valid, last_modified, now, hpvars>>

(* Queries.  The loops run over an unordered_map; the sums they form do not
   depend on the iteration order, so the fold picks the keys with CHOOSE. *)

\* validate whose emptiness test looks at the groups only
validate_groups_only ==
    IF DOMAIN groups_table = {}
    THEN FALSE
    ELSE IF \E name \in DOMAIN groups_table :
               \/ groups_table[name].name = EmptyStr
               \/ /\ groups_table[name].coverage.expected = Zero
                  /\ groups_table[name].coverage.covered # Zero
    THEN FALSE
    ELSE IF \E path \in DOMAIN hierarchy_table :
               hierarchy_table[path].instance_path = EmptyStr
    THEN FALSE
    ELSE IF \E name \in DOMAIN modules_table :
               modules_table[name].module_name = EmptyStr
    THEN FALSE
    ELSE IF \E name \in DOMAIN asserts_table :
               asserts_table[name].assert_name = EmptyStr
    THEN FALSE
    ELSE TRUE

validate ==
    IF /\ DOMAIN groups_table = {} /\ DOMAIN hierarchy_table = {}
       /\ DOMAIN modules_table = {} /\ DOMAIN asserts_table = {}
    THEN FALSE
    ELSE IF \E name \in DOMAIN groups_table :
               \/ groups_table[name].name = EmptyStr
               \/ /\ groups_table[name].coverage.expected = Zero
                  /\ groups_table[name].coverage.covered # Zero
    THEN FALSE
    ELSE IF \E path \in DOMAIN hierarchy_table :
               hierarchy_table[path].instance_path = EmptyStr
    THEN FALSE
    ELSE IF \E name \in DOMAIN modules_table :
               modules_table[name].module_name = EmptyStr
    THEN FALSE
    ELSE IF \E name \in DOMAIN asserts_table :
               asserts_table[name].assert_name = EmptyStr
    THEN FALSE
    ELSE TRUE

\* total_covered += covered; total_expected += expected, both in uint32_t
RECURSIVE SumGroups(_, _)
SumGroups(names, acc) ==
    IF names = {} THEN acc
    ELSE LET n == CHOOSE x \in names : TRUE
             c == groups_table[n].coverage
         IN  SumGroups(names \ {n},
                       [total_covered |-> U32Add(acc.total_covered, c.covered),
                        total_expected |-> U32Add(acc.total_expected, c.expected)])

GroupTotals ==
    SumGroups(DOMAIN groups_table, [total_covered |-> Zero, total_expected |-> Zero])

\* (total_expected > 0) ? (100.0 * total_covered / total_expected) : 0.0
Percentage(total_covered, total_expected) ==
    IF total_expected # Zero
    THEN Fraction(BigMul(Big(100), total_covered), total_expected)
    ELSE FZero

calculate_overall_score ==
    IF DOMAIN groups_table = {} THEN FZero
    ELSE Percentage(GroupTotals.total_covered, GroupTotals.total_expected)

\* the two tests of the loop in the other order: full coverage first
GroupClass_full_first(group) ==
    IF group.coverage.covered = group.coverage.expected THEN "full"
    ELSE IF group.coverage.covered = Zero THEN "zero"
    ELSE "other"

\* the branch taken for one group inside the loop of generate_statistics
GroupClass(group) ==
    IF group.coverage.covered = Zero THEN "zero"
    ELSE IF group.coverage.covered = group.coverage.expected THEN "full"
    ELSE "other"

generate_statistics ==
    [overall_coverage_score |->
         Percentage(GroupTotals.total_covered, GroupTotals.total_expected),
     total_coverage_points |-> GroupTotals.total_expected,
     covered_points |-> GroupTotals.total_covered,
     num_zero_coverage_groups |->
         Cardinality({n \in DOMAIN groups_table : GroupClass(groups_table[n]) = "zero"}),
     num_full_coverage_groups |->
         Cardinality({n \in DOMAIN groups_table : GroupClass(groups_table[n]) = "full"})]

Query(op, val) ==
    /\ ret' = [op |-> op, val |-> val]
    /\ UNCHANGED <<dbvars, now, last_call, hpvars>>

call_validate == Query("validate", validate)
call_calculate_overall_score == Query("calculate_overall_score", calculate_overall_score)
call_generate_statistics == Query("generate_statistics", generate_statistics)

----------------------------------------------------------------------------
(* Specifications of the database *)

\* CoverageDatabase::CoverageDatabase() { reset(); }
DbEmpty ==
    /\ dashboard_data = nullptr
    /\ groups_table = EmptyMap
    /\ hierarchy_table = EmptyMap
    /\ modules_table = EmptyMap
    /\ asserts_table = EmptyMap
    /\ is_valid = FALSE
    /\ now = 0
    /\ last_modified = 0

DbInit ==
    /\ DbEmpty
    /\ last_call = Call("CoverageDatabase", nullptr, FALSE)
    /\ ret = NoRet

NoStats == [file_size_bytes |-> 0, lines_processed |-> 0, groups_parsed |-> 0,
            memory_allocated |-> 0, threads_used |-> 0]

\* MemoryPool::MemoryPool(chunk_size): the first chunk is allocated
MemoryPool(chunk_size) ==
    [chunks_ |-> <<[size |-> chunk_size, used |-> 0]>>,
     chunk_size_ |-> chunk_size,
     total_allocated_ |-> chunk_size]

\* MemoryPool::reset(): every chunk is kept, its use goes back to 0
MemoryPool_reset(pool) ==
    [pool EXCEPT !.chunks_ = [i \in 1..Len(pool.chunks_) |->
                                [pool.chunks_[i] EXCEPT !.used = 0]]]

\* no parser at work
\* dll_api.cpp: the handle tables as the static initialisers leave them
NoHandles ==
    /\ parser_handles = EmptyMap
    /\ hp_groups_parsers = EmptyMap
    /\ hp_hierarchy_parsers = EmptyMap
    /\ hp_assert_parsers = EmptyMap
    /\ database_handles = EmptyMap
    /\ next_handle_id = 1
    /\ held_handles = {}

\* no thread calls the pool
NoAllocators ==
    /\ mutex_ = 0
    /\ allocators = [t \in 1..MaxThreads |-> [pc |-> "idle"]]
    /\ regions = << >>

\* HighPerformanceGroupsParser before parse is called, without its pool
ParserIdle ==
    /\ hp_pc = "idle"
    /\ chunks = << >>
    /\ workers = << >>
    /\ stats_ = NoStats
    /\ next_future = 1
    /\ total_groups = 0
    /\ hp_result = "none"
    /\ first_parse = << >>
    /\ seq_db = << >>

HpIdle ==
    /\ ParserIdle
    /\ memory_pool_ = MemoryPool(1024 * 1024)
    /\ pool_calls = {"MemoryPool"}

\* a database on its own: no file is parsed
Init ==
    /\ DbInit
    /\ HpIdle
    /\ NoHandles
    /\ NoAllocators
    /\ file = [exists |-> FALSE, mappable |-> TRUE, lines |-> << >>,
               terminated |-> TRUE]
    /\ num_threads = 1

RecordCount ==
    Cardinality(DOMAIN groups_table) + Cardinality(DOMAIN hierarchy_table)
    + Cardinality(DOMAIN modules_table) + Cardinality(DOMAIN asserts_table)

\* The caller offers a record under a new key only while the database holds
\* fewer than MaxRecords records.
MayAdd(table, key) ==
    key = EmptyStr \/ key \in DOMAIN table \/ RecordCount < MaxRecords

\* any sequence of add_*, add_dashboard_data and reset calls
Next ==
    \/ \E r \in BasicGroupInputs :
          MayAdd(groups_table, r.name) /\ db_add_coverage_group(<<r>>)
    \/ db_add_coverage_group(nullptr)
    \/ \E r \in HierarchyInputs :
          MayAdd(hierarchy_table, r.instance_path) /\ db_add_hierarchy_instance(<<r>>)
    \/ db_add_hierarchy_instance(nullptr)
    \/ \E r \in ModuleInputs :
          MayAdd(modules_table, r.module_name) /\ db_add_module_definition(<<r>>)
    \/ db_add_module_definition(nullptr)
    \/ \E r \in AssertInputs :
          MayAdd(asserts_table, r.assert_name) /\ db_add_assert_coverage(<<r>>)
    \/ db_add_assert_coverage(nullptr)
    \/ add_dashboard_data(<<DashboardData(Big(75))>>)
    \/ reset
    \/ Tick

Spec == Init /\ [][Next]_vars

\* One key for the hierarchy, module and assert collections of SpecQuery.
QueryKey == <<"a">>

\* the calls of Next on the richer group inputs, the writes through find_*
\* and the three queries
NextQuery ==
    \/ \E r \in GroupInputs :
          MayAdd(groups_table, r.name) /\ db_add_coverage_group(<<r>>)
    \/ /\ MayAdd(hierarchy_table, QueryKey)
       /\ db_add_hierarchy_instance(<<HierarchyInstance(QueryKey, Big(75))>>)
    \/ /\ MayAdd(modules_table, QueryKey)
       /\ db_add_module_definition(<<ModuleDefinition(QueryKey, Big(75))>>)
    \/ /\ MayAdd(asserts_table, QueryKey)
       /\ db_add_assert_coverage(<<AssertCoverage(QueryKey, Big(75))>>)
    \/ add_dashboard_data(<<DashboardData(Big(75))>>)
    \/ \E k \in KeyNames : write_name_via_find_coverage_group(k)
    \/ write_name_via_find_hierarchy_instance(QueryKey)
    \/ write_name_via_find_module_definition(QueryKey)
    \/ write_name_via_find_assert_coverage(QueryKey)
    \/ reset
    \/ call_validate
    \/ call_calculate_overall_score
    \/ call_generate_statistics

SpecQuery == Init /\ [][NextQuery]_vars

----------------------------------------------------------------------------
(* Text: characters, tokens and numbers (high_performance_parser.cpp, simd) *)

Digits == <<"0", "1", "2", "3", "4", "5", "6", "7", "8", "9">>

\* *current >= '0' && *current <= '9'
IsDigit(c) == \E i \in 1..10 : Digits[i] = c

\* *current - '0'
DigitVal(c) == (CHOOSE i \in 1..10 : Digits[i] = c) - 1

\* the decimal text of a natural number
RECURSIVE Dec(_)
Dec(n) == IF n < 10 THEN <<Digits[n + 1]>> ELSE Dec(n \div 10) \o <<Digits[(n % 10) + 1]>>

RECURSIVE Join(_, _)
Join(tokens, sep) ==
    IF tokens = << >> THEN << >>
    ELSE IF Len(tokens) = 1 THEN tokens[1]
    ELSE tokens[1] \o sep \o Join(Tail(tokens), sep)

\* std::string_view::find(pattern) != npos
Contains(text, pattern) ==
    \E i \in 1..(Len(text) - Len(pattern) + 1) :
        SubSeq(text, i, i + Len(pattern) - 1) = pattern

\* skip_whitespace_simd: the first position at or after i that holds none of
\* space, tab, CR, LF (the 16-byte blocks and the tail loop test the same set)
RECURSIVE skip_whitespace_simd(_, _)
skip_whitespace_simd(line, i) ==
    IF i <= Len(line) /\ line[i] \in {" ", "\t", "\r", "\n"}
    THEN skip_whitespace_simd(line, i + 1)
    ELSE i

\* while (current < end && *current != ' ' && *current != '\t') current++
RECURSIVE TokenEnd(_, _)
TokenEnd(line, i) ==
    IF i <= Len(line) /\ line[i] \notin {" ", "\t"}
    THEN TokenEnd(line, i + 1)
    ELSE i

RECURSIVE TokenizeFrom(_, _)
TokenizeFrom(line, i) ==
    IF i > Len(line) THEN << >>
    ELSE LET start == skip_whitespace_simd(line, i)
         IN  IF start > Len(line) THEN << >>
             ELSE LET stop == TokenEnd(line, start)
                  IN  (IF stop > start THEN <<SubSeq(line, start, stop - 1)>> ELSE << >>)
                      \o TokenizeFrom(line, stop)

tokenize_line_simd(line) == TokenizeFrom(line, 1)

\* result = result * 10 + digit over a run of digits, in uint32_t
RECURSIVE DigitsValue(_, _)
DigitsValue(text, acc) ==
    IF text = << >> THEN acc
    ELSE DigitsValue(Tail(text),
                     U32(BigAdd(BigMul(acc, Big(10)), Big(DigitVal(Head(text))))))

\* the same accumulation without reduction: the number the digits denote
RECURSIVE DigitsNumber(_, _)
DigitsNumber(text, acc) ==
    IF text = << >> THEN acc
    ELSE DigitsNumber(Tail(text), BigAdd(BigMul(acc, Big(10)), Big(DigitVal(Head(text)))))

\* the length of the longest prefix of digits
RECURSIVE DigitRun(_)
DigitRun(text) ==
    IF text # << >> /\ IsDigit(Head(text)) THEN 1 + DigitRun(Tail(text)) ELSE 0

\* the characters of the texts that std::isspace accepts
Whitespace == {" ", "\t", "\n", "\r"}

\* the number of leading characters that std::isspace accepts
RECURSIVE SpaceRun(_)
SpaceRun(str) ==
    IF str # << >> /\ Head(str) \in Whitespace THEN 1 + SpaceRun(Tail(str)) ELSE 0

\* ULONG_MAX and UINT32_MAX of the build (Windows: unsigned long has 32 bits)
UINT32_MAX == <<Base - 1, Base - 1, TopDigitMod - 1>>

\* 2^32 - v for 0 < v <= UINT32_MAX: the digitwise complement plus one
Negate32(v) ==
    LET d(i) == IF i <= Len(v) THEN v[i] ELSE 0
    IN  U32(BigAdd(BigNorm(<<Base - 1 - d(1), Base - 1 - d(2), TopDigitMod - 1 - d(3)>>),
                   Big(1)))

\* strtoul(start, &endptr, 10) on a token that the tokenizer delimited: the
\* byte after the token is a space, a tab or a newline, so the scan stops at
\* the end of the token at the latest.  Leading whitespace is skipped, then an
\* optional sign, then digits; a number above ULONG_MAX is returned as
\* ULONG_MAX, otherwise a '-' negates it modulo 2^32.  consumed is
\* endptr - start (0 when there is no digit), erange is errno == ERANGE.
strtoul(token) ==
    LET spaces == SpaceRun(token)
        text == SubSeq(token, spaces + 1, Len(token))
        signed == text # << >> /\ text[1] \in {"+", "-"}
        body == IF signed THEN Tail(text) ELSE text
        n == DigitRun(body)
        number == DigitsNumber(SubSeq(body, 1, n), Zero)
        fits == U32(number) = number
    IN  IF n = 0 THEN [consumed |-> 0, erange |-> FALSE, val |-> Zero]
        ELSE [consumed |-> spaces + n + (IF signed THEN 1 ELSE 0),
              erange |-> ~fits,
              val |-> IF ~fits THEN UINT32_MAX
                      ELSE IF text[1] = "-" /\ number # Zero THEN Negate32(number)
                      ELSE number]

\* bool parse_uint_simd(start, end, result): [ok, result]
parse_uint_simd(token) ==
    IF token = << >> THEN [ok |-> FALSE, result |-> Zero]
    ELSE IF Len(token) <= 8
    THEN LET n == DigitRun(token)
         IN  [ok |-> n = Len(token),
              result |-> DigitsValue(SubSeq(token, 1, n), Zero)]
    ELSE LET r == strtoul(token)
         IN  IF r.consumed = Len(token)
             THEN [ok |-> TRUE, result |-> r.val]
             ELSE [ok |-> FALSE, result |-> Zero]

\* 10^n
RECURSIVE Pow10(_)
Pow10(n) == IF n = 0 THEN Big(1) ELSE BigMul(Big(10), Pow10(n - 1))

\* bool parse_double_simd(start, end, result): strtod on a copy of the token,
\* accepted when the whole token is consumed.  The report files write their
\* numbers in plain decimal notation (digits, optionally a point and digits);
\* tokens in that notation give the fraction they denote, any other token of
\* the model's inputs has no numeric prefix that spans it and is rejected.
parse_double_simd(token) ==
    LET n == DigitRun(token)
        rest == SubSeq(token, n + 1, Len(token))
        hasPoint == rest # << >> /\ rest[1] = "."
        frac == IF hasPoint THEN Tail(rest) ELSE << >>
        m == DigitRun(frac)
        whole == (~hasPoint /\ n = Len(token)) \/ (hasPoint /\ m = Len(frac))
    IN  IF token = << >> \/ n + m = 0 \/ ~whole
        THEN [ok |-> FALSE, result |-> FZero]
        ELSE [ok |-> TRUE,
              result |-> Fraction(DigitsNumber(SubSeq(token, 1, n) \o frac, Zero),
                                  Pow10(m))]

\* parse_group_line_optimized: [result, group]; the group starts as a default
\* constructed CoverageGroup (empty name, zero fields).
parse_group_line_optimized(line) ==
    LET tokens == tokenize_line_simd(line)
        blank == [CoverageGroup(EmptyStr, Zero, Zero, FZero)
                     EXCEPT !.coverage.is_valid = FALSE]
        covered == parse_uint_simd(tokens[1])
        expected == parse_uint_simd(tokens[2])
        score == parse_double_simd(tokens[3])
        rest == [i \in 5..11 |-> parse_uint_simd(tokens[i])]
        measured == [blank EXCEPT !.coverage =
                        [covered |-> covered.result, expected |-> expected.result,
                         score |-> score.result, is_valid |-> TRUE]]
        filled == IF \A i \in 5..11 : rest[i].ok
                  THEN [measured EXCEPT !.instances = rest[5].result,
                                        !.weight = rest[6].result,
                                        !.goal = rest[7].result,
                                        !.at_least = rest[8].result,
                                        !.per_instance = rest[9].result,
                                        !.auto_bin_max = rest[10].result,
                                        !.print_missing = rest[11].result]
                  ELSE measured
        named == IF Len(tokens) > 12 THEN [filled EXCEPT !.name = tokens[13]]
                 ELSE filled
    IN  IF Len(tokens) < 12
        THEN [result |-> "ERROR_INVALID_FORMAT", group |-> blank]
        ELSE IF ~covered.ok \/ ~expected.ok \/ ~score.ok
        THEN [result |-> "ERROR_PARSE_FAILED", group |-> blank]
        ELSE [result |-> "SUCCESS", group |-> named]

----------------------------------------------------------------------------
(* Files.  A file is a sequence of lines; a line is one of a few texts,
   written as it is or followed by spaces up to a fixed width, so that a
   file of a few lines can be larger than the 1 MB below which create_chunks
   makes a single chunk.  Every line ends with '\n' except, when terminated
   is FALSE, the last one. *)

Row(tokens) == Join(tokens, <<" ">>)

Name_a == <<"a">>
Name_b == <<"b">>

\* The texts of the lines.
\*   "A"  a data row with two comment words (13 tokens)
\*   "A2" a row for the same group with other counts
\*   "B"  a row without comment: the ten numeric fields and the name
\*   "G"  a row with three comment words, like the documented example
\*        45 50 90.00 2.00 3 95 2 1 128 32 "High priority group" name
\*   "H"  a header, "S" a separator, "E" an empty line
LineTexts ==
    [A  |-> Row(<<Dec(45), Dec(50), <<"9", "0", ".", "0", "0">>, <<"2", ".", "0", "0">>,
                  Dec(3), Dec(95), Dec(2), Dec(1), Dec(128), Dec(32),
                  <<"c">>, <<"d">>, Name_a>>),
     A2 |-> Row(<<Dec(0), Dec(16), <<"0", ".", "0", "0">>, <<"2", ".", "0", "0">>,
                  Dec(3), Dec(95), Dec(2), Dec(1), Dec(128), Dec(32),
                  <<"c">>, <<"d">>, Name_a>>),
     B  |-> Row(<<Dec(128), Dec(128), <<"1", "0", "0", ".", "0", "0">>, Dec(1),
                  Dec(1), Dec(100), Dec(1), Dec(0), Dec(64), Dec(0), Name_b>>),
     G  |-> Row(<<Dec(45), Dec(50), <<"9", "0", ".", "0", "0">>, <<"2", ".", "0", "0">>,
                  Dec(3), Dec(95), Dec(2), Dec(1), Dec(128), Dec(32),
                  <<"c">>, <<"d">>, <<"e">>, Name_b>>),
     H  |-> Row(<<<<"G", "R", "O", "U", "P">>,
                  <<"C", "O", "V", "E", "R", "E", "D">>>>),
     S  |-> <<"-", "-", "-", "-">>,
     E  |-> << >>]

LineIds == DOMAIN LineTexts

\* create_chunks: file_size < 1024 * 1024
SMALL_FILE_LIMIT == 1024 * 1024

\* The widths of a line counted with its '\n': 0 for the text as it is,
\* otherwise the text followed by spaces up to that width.
LineWidths == {0, SMALL_FILE_LIMIT \div 2, SMALL_FILE_LIMIT}

Line(id, width) == [id |-> id, width |-> width]

\* line.size(): the bytes of the line without its '\n'
LineLength(line) ==
    IF line.width = 0 THEN Len(LineTexts[line.id]) ELSE line.width - 1

\* The characters of the line as the tokenizers see them.  The spaces that
\* fill a line up to its width follow the last token; one of them stands for
\* the run.
LineText(line) ==
    LineTexts[line.id] \o (IF line.width = 0 THEN << >> ELSE <<" ">>)

\* mappable: CreateFileMappingA and MapViewOfFile succeed on the file
File(exists, lines, terminated) ==
    [exists |-> exists, mappable |-> TRUE, lines |-> lines, terminated |-> terminated]

\* the same file when the operating system fails to map it
Unmappable(f) == [f EXCEPT !.mappable = FALSE]

\* offset of the first byte of line i (i = Len + 1: one past the last line)
RECURSIVE LineStart(_, _)
LineStart(f, i) ==
    IF i = 1 THEN 0 ELSE LineStart(f, i - 1) + LineLength(f.lines[i - 1]) + 1

\* Does line i end with '\n'?
HasNewline(f, i) == i < Len(f.lines) \/ f.terminated

\* offset of the '\n' that ends line i
NewlineAt(f, i) == LineStart(f, i) + LineLength(f.lines[i])

\* the offsets at which the file holds '\n'
Newlines(f) == { NewlineAt(f, i) : i \in { j \in 1..Len(f.lines) : HasNewline(f, j) } }

\* file_size_ as fstat / GetFileSizeEx report it
FileSize(f) ==
    IF f.lines = << >> THEN 0
    ELSE LineStart(f, Len(f.lines) + 1) - (IF f.terminated THEN 0 ELSE 1)

\* MemoryMappedFile::is_valid() after the constructor: the file was opened,
\* its size is not 0 and it was mapped
\* is_valid_file for a constructor that maps a file of size 0
is_valid_file_any_size(f) == f.exists /\ f.mappable

is_valid_file(f) == f.exists /\ FileSize(f) > 0 /\ f.mappable

\* the sequences of at most n elements of S
RECURSIVE SeqsUpTo(_, _)
SeqsUpTo(S, n) ==
    IF n = 0 THEN {<< >>}
    ELSE SeqsUpTo(S, n - 1)
         \cup { Append(q, x) : q \in { r \in SeqsUpTo(S, n - 1) : Len(r) = n - 1 }, x \in S }

Max(S) == CHOOSE x \in S : \A y \in S : y <= x
Min(S) == CHOOSE x \in S : \A y \in S : x <= y

----------------------------------------------------------------------------
(* ParallelProcessor *)

\* find_line_boundary that leaves the offset where it is
find_line_boundary_unsnapped(f, start, file_size, find_start) ==
    IF start = 0 /\ find_start THEN 0
    ELSE IF start >= file_size THEN file_size
    ELSE start

\* find_line_boundary(data, start, file_size, find_start).  The two loops
\* walk over the bytes; what they return is given from the offsets of '\n':
\* backward, the offset after the last '\n' below start (0 if there is
\* none); forward, the offset after the first '\n' at or above start
\* (file_size if there is none).
find_line_boundary(f, start, file_size, find_start) ==
    IF start = 0 /\ find_start THEN 0
    ELSE IF start >= file_size THEN file_size
    ELSE IF find_start
    THEN Max({0} \cup { nl + 1 : nl \in { n \in Newlines(f) : n < start } })
    ELSE LET ahead == { n \in Newlines(f) : n >= start }
         IN  IF ahead = {} THEN file_size ELSE Min(ahead) + 1

FileChunk(start_offset, end_offset, line_start, line_end) ==
    [start_offset |-> start_offset, end_offset |-> end_offset,
     line_start |-> line_start, line_end |-> line_end]

\* the chunk that iteration i (from 0) of the loop of create_chunks forms
ChunkOf(f, n, i) ==
    LET file_size == FileSize(f)
        chunk_size == file_size \div n
        start_offset == i * chunk_size
        end_offset == IF i = n - 1 THEN file_size ELSE (i + 1) * chunk_size
    IN  FileChunk(start_offset, end_offset,
                  find_line_boundary(f, start_offset, file_size, TRUE),
                  find_line_boundary(f, end_offset, file_size, FALSE))

\* the chunks of iterations i..n-1 that are kept
RECURSIVE ChunksFrom(_, _, _)
ChunksFrom(f, n, i) ==
    IF i >= n THEN << >>
    ELSE (IF ChunkOf(f, n, i).line_start < ChunkOf(f, n, i).line_end
          THEN <<ChunkOf(f, n, i)>> ELSE << >>) \o ChunksFrom(f, n, i + 1)

\* file_size / num_threads with num_threads == 0
DividesByZero(f, n) ==
    is_valid_file(f) /\ FileSize(f) >= SMALL_FILE_LIMIT /\ n = 0

\* create_chunks(file, num_threads), where it divides by no zero
create_chunks(f, n) ==
    IF ~is_valid_file(f) \/ FileSize(f) = 0 THEN << >>
    ELSE IF FileSize(f) < SMALL_FILE_LIMIT \/ n = 1
    THEN <<FileChunk(0, FileSize(f), 0, FileSize(f))>>
    ELSE ChunksFrom(f, n, 0)

----------------------------------------------------------------------------
(* HighPerformanceGroupsParser *)

SUCCESS == "SUCCESS"
ERROR_FILE_NOT_FOUND == "ERROR_FILE_NOT_FOUND"

\* The lines that parse_chunk visits in a chunk, in order: those that lie in
\* [line_start, line_end) and end with a '\n' inside it (the loop runs over
\* the newlines that find_newlines_simd found).  The chunks that create_chunks
\* returns start at the start of a line.
ChunkLines(f, chunk) ==
    SelectSeq([i \in 1..Len(f.lines) |-> i],
              LAMBDA i : /\ HasNewline(f, i)
                         /\ LineStart(f, i) >= chunk.line_start
                         /\ NewlineAt(f, i) < chunk.line_end)

\* "Skip headers and empty lines"
IsSkipped(line) ==
    \/ LineLength(line) = 0
    \/ Contains(LineText(line), <<"-", "-", "-">>)
    \/ Contains(LineText(line), <<"C", "O", "V", "E", "R", "E", "D">>)

\* Does parse_chunk push a group for the line?
Pushes(line) ==
    ~IsSkipped(line) /\ parse_group_line_optimized(LineText(line)).result = SUCCESS

\* The task that std::async starts for a chunk: todo are the lines it has
\* yet to visit, groups its vector, tmp the value of stats_.lines_processed
\* that it has read and not yet written back.
Worker(todo) ==
    [pc |-> IF todo = << >> THEN "done" ELSE "scan",
     todo |-> todo, groups |-> << >>, tmp |-> 0, result |-> SUCCESS]

\* parse_chunk at a line: skip it, or push its group and read
\* stats_.lines_processed for the increment
worker_scan(w) ==
    /\ hp_pc = "collect"
    /\ w \in 1..Len(workers)
    /\ workers[w].pc = "scan"
    /\ LET me == workers[w]
           line == file.lines[Head(me.todo)]
       IN  workers' =
             [workers EXCEPT ![w] =
                IF Pushes(line)
                THEN [me EXCEPT !.groups =
                                   Append(@, parse_group_line_optimized(LineText(line)).group),
                                !.tmp = stats_.lines_processed,
                                !.pc = "store"]
                ELSE [me EXCEPT !.todo = Tail(@),
                                !.pc = IF Tail(me.todo) = << >> THEN "done" ELSE "scan"]]
    /\ UNCHANGED <<dbvars, now, last_call, ret, file, num_threads, hp_pc, chunks,
                   stats_, next_future, total_groups, hp_result, first_parse, seq_db,
                   memory_pool_, pool_calls, dllvars, poolvars>>

\* stats_.lines_processed++ writes back, and the loop goes to the next line
worker_store(w) ==
    /\ hp_pc = "collect"
    /\ w \in 1..Len(workers)
    /\ workers[w].pc = "store"
    /\ stats_' = [stats_ EXCEPT !.lines_processed = workers[w].tmp + 1]
    /\ workers' = [workers EXCEPT ![w].todo = Tail(@),
                                  ![w].pc = IF Tail(workers[w].todo) = << >>
                                            THEN "done" ELSE "scan"]
    /\ UNCHANGED <<dbvars, now, last_call, ret, file, num_threads, hp_pc, chunks,
                   next_future, total_groups, hp_result, first_parse, seq_db,
                   memory_pool_, pool_calls, dllvars, poolvars>>

\* the loop over groups from its last element to its first
RECURSIVE AddAll_back_to_front(_, _)
AddAll_back_to_front(table, groups) ==
    IF groups = << >> THEN Added(table, FALSE)
    ELSE LET first == add_coverage_group(table, <<groups[Len(groups)]>>)
             rest == AddAll_back_to_front(first.table, SubSeq(groups, 1, Len(groups) - 1))
         IN  Added(rest.table, first.touched \/ rest.touched)

\* for (auto& group : groups) db.add_coverage_group(std::move(group))
RECURSIVE AddAll(_, _)
AddAll(table, groups) ==
    IF groups = << >> THEN Added(table, FALSE)
    ELSE LET first == add_coverage_group(table, <<Head(groups)>>)
             rest == AddAll(first.table, Tail(groups))
         IN  Added(rest.table, first.touched \/ rest.touched)

\* parse returns: the futures and the chunks go out of scope
Return(result) ==
    /\ hp_result' = result
    /\ chunks' = << >>
    /\ workers' = << >>
    /\ IF first_parse = << >>
       THEN /\ hp_pc' = "returned"
            /\ first_parse' = <<[result |-> result, groups_table |-> groups_table']>>
       ELSE /\ hp_pc' = "reparsed"
            /\ UNCHANGED first_parse

\* parse up to the launch of the tasks
parse_begin ==
    /\ hp_pc \in {"idle", "returned"}
    /\ ~DividesByZero(file, num_threads)
    /\ last_call' = Call("parse", nullptr, FALSE)
    /\ ret' = NoRet
    /\ next_future' = 1
    /\ total_groups' = 0
    /\ IF ~is_valid_file(file)
       THEN /\ stats_' = NoStats
            /\ UNCHANGED dbvars
            /\ Return(ERROR_FILE_NOT_FOUND)
       ELSE /\ stats_' = [NoStats EXCEPT !.file_size_bytes = FileSize(file),
                                         !.threads_used = num_threads]
            /\ chunks' = create_chunks(file, num_threads)
            /\ workers' = [i \in 1..Len(chunks') |-> Worker(ChunkLines(file, chunks'[i]))]
            /\ hp_pc' = "collect"
            /\ hp_result' = "none"
            /\ UNCHANGED <<dbvars, first_parse>>
    /\ UNCHANGED <<now, file, num_threads, seq_db,
                   memory_pool_, pool_calls, dllvars, poolvars>>

\* parse when hardware_concurrency() is 0 and the file has 1 MB or more:
\* create_chunks divides by zero.  The division traps and the process ends,
\* or it yields a value and the loop over i < 0 makes no chunk.
parse_begin_divides_by_zero ==
    /\ hp_pc \in {"idle", "returned"}
    /\ DividesByZero(file, num_threads)
    /\ last_call' = Call("parse", nullptr, FALSE)
    /\ ret' = NoRet
    /\ next_future' = 1
    /\ total_groups' = 0
    /\ stats_' = [NoStats EXCEPT !.file_size_bytes = FileSize(file),
                                 !.threads_used = num_threads]
    /\ chunks' = << >>
    /\ workers' = << >>
    /\ hp_result' = "none"
    /\ hp_pc' \in {"crashed", "collect"}
    /\ UNCHANGED <<dbvars, now, file, num_threads, first_parse, seq_db,
                   memory_pool_, pool_calls, dllvars, poolvars>>

\* one round of "Collect results": future.get() of the next task, then its
\* groups go into the database
collect ==
    /\ hp_pc = "collect"
    /\ next_future <= Len(workers)
    /\ workers[next_future].pc = "done"
    /\ workers[next_future].result = SUCCESS
    /\ groups_table' = AddAll(groups_table, workers[next_future].groups).table
    /\ Touch(AddAll(groups_table, workers[next_future].groups).touched)
    /\ total_groups' = total_groups + Len(workers[next_future].groups)
    /\ next_future' = next_future + 1
    /\ UNCHANGED <<hierarchy_table, modules_table, asserts_table, dashboard_data,
                   is_valid, now, last_call, ret, file, num_threads, hp_pc, chunks,
                   workers, stats_, hp_result, first_parse, seq_db,
                   memory_pool_, pool_calls, dllvars, poolvars>>

\* after the last future: the statistics, return SUCCESS
parse_end ==
    /\ hp_pc = "collect"
    /\ next_future > Len(workers)
    /\ stats_' = [stats_ EXCEPT !.groups_parsed = total_groups,
                                !.memory_allocated = memory_pool_.total_allocated_]
    /\ pool_calls' = pool_calls \cup {"total_allocated"}
    /\ UNCHANGED <<dbvars, now, last_call, ret, file, num_threads,
                   next_future, total_groups, seq_db, memory_pool_, dllvars, poolvars>>
    /\ Return(SUCCESS)

----------------------------------------------------------------------------
(* The sequential GroupsParser.  Its text utilities are those of
   parser_utils.cpp; the parser itself is described by the specification of
   the Groups format: covered, expected, score, instances, weight, goal,
   at_least, per_instance, auto_bin_max, print_missing, comment words, and
   the name as the last token; headers, separators and lines with fewer
   than the minimum field count are skipped; every line of the file is
   read, the last one with or without '\n'. *)

\* trim: without the leading and trailing " \t\n\r"
RECURSIVE trim(_)
trim(str) ==
    IF str = << >> THEN str
    ELSE IF Head(str) \in Whitespace THEN trim(Tail(str))
    ELSE IF str[Len(str)] \in Whitespace THEN trim(SubSeq(str, 1, Len(str) - 1))
    ELSE str

\* while (iss >> token): the maximal runs of non-whitespace characters
RECURSIVE split_whitespace(_)
split_whitespace(str) ==
    IF str = << >> THEN << >>
    ELSE IF Head(str) \in Whitespace THEN split_whitespace(Tail(str))
    ELSE LET n == CHOOSE k \in 1..Len(str) :
                     /\ \A j \in 1..k : str[j] \notin Whitespace
                     /\ (k = Len(str) \/ str[k + 1] \in Whitespace)
         IN  <<SubSeq(str, 1, n)>> \o split_whitespace(SubSeq(str, n + 1, Len(str)))

\* parse_uint: std::stoul(trim(uint_str)), default_value when it throws
\* (no digits, or out of the range of unsigned long)
parse_uint(uint_str, default_value) ==
    IF uint_str = << >> THEN default_value
    ELSE LET r == strtoul(trim(uint_str))
         IN  IF r.consumed = 0 \/ r.erange THEN default_value ELSE r.val

\* parse_double: std::stod(trim(float_str)), default_value when it throws.
\* stod converts the longest numeric prefix (plain decimal notation here).
parse_double(float_str, default_value) ==
    LET str == trim(float_str)
        n == DigitRun(str)
        rest == SubSeq(str, n + 1, Len(str))
        hasPoint == rest # << >> /\ rest[1] = "."
        m == IF hasPoint THEN DigitRun(Tail(rest)) ELSE 0
    IN  IF float_str = << >> \/ n + m = 0 THEN default_value
        ELSE Fraction(DigitsNumber(SubSeq(str, 1, n) \o SubSeq(rest, 2, m + 1), Zero),
                      Pow10(m))

\* the ten numeric fields and the name
MIN_GROUP_FIELDS == 10 + 1

\* the group of a data line, nullptr for a line that is skipped
GroupsParser_parse_line(text) ==
    LET tokens == split_whitespace(text)
        n == Len(tokens)
    IN  IF \/ Contains(text, <<"-", "-", "-">>)
           \/ Contains(text, <<"C", "O", "V", "E", "R", "E", "D">>)
           \/ n < MIN_GROUP_FIELDS
        THEN nullptr
        ELSE <<[CoverageGroup(tokens[n], parse_uint(tokens[1], Zero),
                              parse_uint(tokens[2], Zero), parse_double(tokens[3], FZero))
                  EXCEPT !.instances = parse_uint(tokens[4], Zero),
                         !.weight = parse_uint(tokens[5], Zero),
                         !.goal = parse_uint(tokens[6], Zero),
                         !.at_least = parse_uint(tokens[7], Zero),
                         !.per_instance = parse_uint(tokens[8], Zero),
                         !.auto_bin_max = parse_uint(tokens[9], Zero),
                         !.print_missing = parse_uint(tokens[10], Zero),
                         !.comment = Join(SubSeq(tokens, 11, n - 1), <<" ">>)]>>

\* the groups of lines i.. of the file go into the table in file order
RECURSIVE GroupsParser_lines(_, _, _)
GroupsParser_lines(f, i, table) ==
    IF i > Len(f.lines) THEN table
    ELSE GroupsParser_lines(f, i + 1,
            add_coverage_group(table, GroupsParser_parse_line(LineText(f.lines[i]))).table)

\* GroupsParser::parse(filename, db) on a database of its own
GroupsParser_parse ==
    /\ hp_pc = "reparsed"
    /\ seq_db = << >>
    /\ seq_db' = <<[result |-> IF file.exists THEN SUCCESS ELSE ERROR_FILE_NOT_FOUND,
                    groups_table |-> IF file.exists
                                     THEN GroupsParser_lines(file, 1, EmptyMap)
                                     ELSE EmptyMap]>>
    /\ UNCHANGED <<dbvars, now, last_call, ret, file, num_threads, hp_pc, chunks,
                   workers, stats_, next_future, total_groups, hp_result, first_parse,
                   memory_pool_, pool_calls, dllvars, poolvars>>

----------------------------------------------------------------------------
(* Specifications of the parallel pipeline *)

\* the files over the given lines, the empty file, the file that cannot be
\* opened and files that cannot be mapped
FilesOver(lines) ==
    { File(TRUE, q, t) : q \in SeqsUpTo(lines, MaxLines) \ {<< >>}, t \in BOOLEAN }
    \cup { File(TRUE, << >>, TRUE), File(FALSE, << >>, TRUE) }
    \cup { Unmappable(File(TRUE, <<l>>, TRUE)) : l \in lines }

\* lines of three lengths in the three widths
ChunkFiles == FilesOver({ Line(id, w) : id \in {"A", "H", "E"}, w \in LineWidths })

\* data rows, short and 1 MB wide, and a header
ParseFiles ==
    FilesOver({ Line("A", 0), Line("A2", SMALL_FILE_LIMIT), Line("B", 0),
                Line("G", SMALL_FILE_LIMIT), Line("H", 0) })

\* a direct call of ParallelProcessor::create_chunks
call_create_chunks ==
    /\ hp_pc = "idle"
    /\ ~DividesByZero(file, num_threads)
    /\ chunks' = create_chunks(file, num_threads)
    /\ hp_pc' = "chunked"
    /\ UNCHANGED <<dbvars, now, last_call, ret, file, num_threads, workers, stats_,
                   next_future, total_groups, hp_result, first_parse, seq_db,
                   memory_pool_, pool_calls, dllvars, poolvars>>

\* the call that divides by zero: the process ends or no chunk is made
call_create_chunks_divides_by_zero ==
    /\ hp_pc = "idle"
    /\ DividesByZero(file, num_threads)
    /\ chunks' = << >>
    /\ hp_pc' \in {"crashed", "chunked"}
    /\ UNCHANGED <<dbvars, now, last_call, ret, file, num_threads, workers, stats_,
                   next_future, total_groups, hp_result, first_parse, seq_db,
                   memory_pool_, pool_calls, dllvars, poolvars>>

InitChunks ==
    /\ DbInit
    /\ HpIdle
    /\ NoHandles
    /\ NoAllocators
    /\ file \in ChunkFiles
    /\ num_threads \in 0..MaxThreads

NextChunks ==
    \/ call_create_chunks
    \/ call_create_chunks_divides_by_zero

SpecChunks == InitChunks /\ [][NextChunks]_vars

InitParse ==
    /\ DbInit
    /\ HpIdle
    /\ NoHandles
    /\ NoAllocators
    /\ file \in ParseFiles
    /\ num_threads \in 0..MaxThreads

\* two calls of parse on the same file and database, the tasks of each call
\* in every interleaving, then the sequential parser on the same file
NextParse ==
    \/ parse_begin
    \/ parse_begin_divides_by_zero
    \/ \E w \in 1..Len(workers) : worker_scan(w)
    \/ \E w \in 1..Len(workers) : worker_store(w)
    \/ collect
    \/ parse_end
    \/ GroupsParser_parse

SpecParse == InitParse /\ [][NextParse]_vars

----------------------------------------------------------------------------
(* PerformanceParserFactory *)

OPTIMIZATION_THRESHOLD == 10 * 1024 * 1024

\* create_groups_parser(filename): the class of the parser it makes.  The
\* std::ifstream is opened at the end of the file; tellg() is the size.
create_groups_parser(f) ==
    IF ~f.exists THEN "GroupsParser"
    ELSE IF FileSize(f) >= OPTIMIZATION_THRESHOLD THEN "HighPerformanceGroupsParser"
    ELSE "GroupsParser"

call_create_groups_parser ==
    /\ ret = NoRet
    /\ ret' = [op |-> "create_groups_parser", val |-> create_groups_parser(file)]
    /\ UNCHANGED <<dbvars, now, last_call, hpvars>>

\* lines of 10 MB, of 1 MB, a short row and an empty line: files of 10 MB
\* and of a byte less or more
FactoryFiles ==
    FilesOver({ Line("A", OPTIMIZATION_THRESHOLD), Line("A", SMALL_FILE_LIMIT),
                Line("A", 0), Line("E", 0) })

InitFactory ==
    /\ DbInit
    /\ HpIdle
    /\ NoHandles
    /\ NoAllocators
    /\ file \in FactoryFiles
    /\ num_threads \in 0..MaxThreads

NextFactory == call_create_groups_parser

SpecFactory == InitFactory /\ [][NextFactory]_vars

----------------------------------------------------------------------------
(* The functions of one argument, each applied to one input: last_call holds
   the call and its argument, ret the value returned. *)

\* a data row of a groups file
GroupRow(covered, expected, score, comment, name) ==
    Row(<<covered, expected, score, <<"2", ".", "0", "0">>, Dec(3), Dec(95), Dec(2),
          Dec(1), Dec(128), Dec(32)>> \o comment \o <<name>>)

\* rows with counts and scores that agree or not, with 0 to 3 comment words
GroupRows ==
    { GroupRow(Dec(c), Dec(e), sc, cm, Name_a) :
        c \in {0, 45, 50}, e \in {0, 50},
        sc \in { <<"0", ".", "0", "0">>, <<"9", "0", ".", "0", "0">>,
                 <<"1", "0", "0", ".", "0", "0">> },
        cm \in { << >>, <<<<"c">>>>, <<<<"c">>, <<"d">>>>,
                 <<<<"c">>, <<"d">>, <<"e">>>> } }

\* the function op is called with the argument of last_call and returns val
Returns(op, val) ==
    /\ last_call.op = op
    /\ ret = NoRet
    /\ ret' = [op |-> op, val |-> val]
    /\ UNCHANGED <<dbvars, now, last_call, hpvars>>

call_parse_group_line_optimized ==
    Returns("parse_group_line_optimized", parse_group_line_optimized(last_call.arg))

\* the strings of at most MaxLen characters over an alphabet
Strings(alphabet) == SeqsUpTo(alphabet, MaxLen)

\* std::string::find_last_of(c): the position from 1, 0 for npos
find_last_of(str, c) ==
    IF \E i \in 1..Len(str) : str[i] = c
    THEN Max({ i \in 1..Len(str) : str[i] = c })
    ELSE 0

\* HierarchyInstance::calculate_depth_level: the value of depth_level
RECURSIVE calculate_depth_level(_)
calculate_depth_level(instance_path) ==
    IF instance_path = << >> THEN 0
    ELSE (IF Head(instance_path) = "." THEN 1 ELSE 0)
         + calculate_depth_level(Tail(instance_path))

\* HierarchyInstance::extract_module_name: the value of module_name
extract_module_name(instance_path) ==
    IF instance_path = << >> THEN EmptyStr
    ELSE IF find_last_of(instance_path, ".") # 0
    THEN SubSeq(instance_path, find_last_of(instance_path, ".") + 1, Len(instance_path))
    ELSE instance_path

\* get_parent_path that cuts at the first '.'
get_parent_path_first_dot(instance_path) ==
    IF find_last_of(instance_path, ".") # 0
    THEN SubSeq(instance_path, 1,
                Min({ i \in 1..Len(instance_path) : instance_path[i] = "." }) - 1)
    ELSE EmptyStr

\* HierarchyInstance::get_parent_path
get_parent_path(instance_path) ==
    IF find_last_of(instance_path, ".") # 0
    THEN SubSeq(instance_path, 1, find_last_of(instance_path, ".") - 1)
    ELSE EmptyStr

\* the three methods on an instance with the given instance_path
call_hierarchy_methods ==
    Returns("HierarchyInstance",
            [depth_level |-> calculate_depth_level(last_call.arg),
             module_name |-> extract_module_name(last_call.arg),
             parent_path |-> get_parent_path(last_call.arg)])

\* instance paths such as t.c, .t or t..c
InstancePaths == Strings({"t", "c", "."})

\* std::getline(ss, token, delimiter) with the stream at position pos: fails
\* when no character is left; otherwise the token runs to the next delimiter,
\* which is consumed, or to the end of the stream
getline(str, pos, delimiter) ==
    LET ends == { i \in pos..Len(str) : str[i] = delimiter }
        stop == IF ends = {} THEN Len(str) + 1 ELSE Min(ends)
    IN  [ok |-> pos <= Len(str),
         token |-> SubSeq(str, pos, stop - 1),
         pos |-> IF ends = {} THEN Len(str) + 1 ELSE stop + 1]

\* while (std::getline(ss, token, delimiter)) tokens.push_back(token)
RECURSIVE getline_loop(_, _, _)
getline_loop(str, pos, delimiter) ==
    IF getline(str, pos, delimiter).ok
    THEN <<getline(str, pos, delimiter).token>>
         \o getline_loop(str, getline(str, pos, delimiter).pos, delimiter)
    ELSE << >>

\* utils::split
split(str, delimiter) ==
    getline_loop(str, 1, delimiter)
    \o (IF str # << >> /\ str[Len(str)] = delimiter THEN <<EmptyStr>> ELSE << >>)

\* HierarchyInstance::get_path_components: the components that getline
\* reads up to each '.', the empty ones left out
get_path_components(instance_path) ==
    SelectSeq(getline_loop(instance_path, 1, "."), LAMBDA component : component # EmptyStr)

call_get_path_components ==
    Returns("get_path_components", get_path_components(last_call.arg))

call_split ==
    Returns("split", split(last_call.arg.str, last_call.arg.delimiter))

\* std::stod(str): skips leading whitespace and converts the longest prefix
\* that is a number; std::invalid_argument when there is none.  The texts of
\* the model write numbers as digits with an optional point, so the prefix is
\* a run of digits, optionally a point and a run of digits, with one digit at
\* least; what follows the prefix is ignored.
stod(str) ==
    LET text == SubSeq(str, SpaceRun(str) + 1, Len(str))
        n == DigitRun(text)
        rest == SubSeq(text, n + 1, Len(text))
        m == IF rest # << >> /\ rest[1] = "." THEN DigitRun(Tail(rest)) ELSE 0
    IN  IF n + m = 0
        THEN [thrown |-> TRUE, val |-> Fraction(0, 1)]
        ELSE [thrown |-> FALSE,
              val |-> Fraction(BigVal(DigitsNumber(SubSeq(text, 1, n) \o SubSeq(rest, 2, m + 1), Zero)),
                               BigVal(Pow10(m)))]

\* the double -1.0
MinusOne == Fraction(0 - 1, 1)

\* what a call of parse_percentage does: it returns a double or it faults
Returned(val) == [fault |-> FALSE, val |-> val]
Fault == [fault |-> TRUE, val |-> Fraction(0, 1)]

\* utils::parse_percentage: the outcomes of a call.  For a text of whitespace
\* only, clean_str is empty and clean_str.back() is undefined: the call faults
\* (checked builds), or it reads a byte outside the text and goes on to
\* std::stod(""), which throws, so that -1.0 is returned
parse_percentage(percentage_str) ==
    LET clean_str == trim(percentage_str)
        stripped == IF clean_str[Len(clean_str)] = "%"
                    THEN SubSeq(clean_str, 1, Len(clean_str) - 1)
                    ELSE clean_str
    IN  IF percentage_str = << >> THEN {Returned(MinusOne)}
        ELSE IF clean_str = << >> THEN {Fault, Returned(MinusOne)}
        ELSE IF stod(stripped).thrown THEN {Returned(MinusOne)}
        ELSE {Returned(stod(stripped).val)}

call_parse_percentage ==
    /\ last_call.op = "parse_percentage"
    /\ \E outcome \in parse_percentage(last_call.arg) :
           Returns("parse_percentage", outcome)

call_parse_uint_simd ==
    Returns("parse_uint_simd", parse_uint_simd(last_call.arg))

\* digit strings of 1, 8, 9, 10 and 11 digits around the width of the fast
\* path and around 2^32 - 1
DigitTokens ==
    { Dec(7), Dec(12345678), Dec(123456789), <<"0", "0">> \o Dec(12345678),
      Dec(42949) \o Dec(67295), Dec(42949) \o Dec(67296),
      Dec(99999) \o Dec(999999) }

\* the bytes [start, end) given to parse_uint_simd: digit strings, bare or
\* after a sign or a space or before a letter, and the empty range
UintTokens ==
    {EmptyStr}
    \cup { prefix \o digits \o suffix :
             prefix \in {EmptyStr, <<"+">>, <<"-">>, <<" ">>},
             digits \in DigitTokens,
             suffix \in {EmptyStr, <<"x">>} }

\* percentage texts such as 7.5%, 75, blanks and texts that are no numbers
PercentageTexts == Strings({" ", "%", "7", ".", "x"})

\* delimited texts such as a,b or ,a, and the delimiters , and ;
SplitArgs ==
    { [str |-> str, delimiter |-> d] : str \in Strings({"a", ",", ";"}), d \in {",", ";"} }

FunctionCalls ==
    { Call("parse_group_line_optimized", line, FALSE) : line \in GroupRows }
    \cup { Call("HierarchyInstance", path, FALSE) : path \in InstancePaths }
    \cup { Call("split", arg, FALSE) : arg \in SplitArgs }
    \cup { Call("get_path_components", path, FALSE) : path \in InstancePaths }
    \cup { Call("parse_percentage", str, FALSE) : str \in PercentageTexts }
    \cup { Call("parse_uint_simd", token, FALSE) : token \in UintTokens }

InitFunctions ==
    /\ DbEmpty
    /\ HpIdle
    /\ NoHandles
    /\ NoAllocators
    /\ file = File(FALSE, << >>, TRUE)
    /\ num_threads = 1
    /\ last_call \in FunctionCalls
    /\ ret = NoRet

NextFunctions ==
    \/ call_parse_group_line_optimized
    \/ call_hierarchy_methods
    \/ call_split
    \/ call_get_path_components
    \/ call_parse_percentage
    \/ call_parse_uint_simd

SpecFunctions == InitFunctions /\ [][NextFunctions]_vars

----------------------------------------------------------------------------
(* The boundary interface (dll_api.cpp).  A handle is the number that
   next_handle_id held when the object was made; the null handle is 0.  A
   file name is a pointer: nullptr, or one string.  A database behind a handle
   is known by the parse calls that filled it. *)

ERROR_INVALID_PARAMETER == "ERROR_INVALID_PARAMETER"

ParserKinds ==
    {"DashboardParser", "GroupsParser", "HierarchyParser", "ModuleListParser",
     "AssertParser"}

\* the handles a caller passes: null, handed out, or never handed out
Handles == 0..MaxHandles

\* the file names a caller passes: null, empty, a report file, a report
\* file of the size at which the factory chooses the parallel parser, no file
ReportName == <<"g", ".", "t", "x", "t">>
LargeReportName == <<"G", ".", "t", "x", "t">>
MissingName == <<"n", "o">>
Filenames == {nullptr, <<EmptyStr>>, <<ReportName>>, <<LargeReportName>>, <<MissingName>>}

\* the file behind a name
FileNamed(filename) ==
    IF filename = ReportName THEN File(TRUE, <<Line("A", 0)>>, TRUE)
    ELSE IF filename = LargeReportName
    THEN File(TRUE, <<Line("A", OPTIMIZATION_THRESHOLD)>>, TRUE)
    ELSE File(FALSE, << >>, TRUE)

\* the parser types a caller passes to create_optimal_parser
ParserTypes == {nullptr, <<"groups">>, <<"hierarchy">>}

\* std::map::erase(handle)
MapErase(table, key) == [k \in (DOMAIN table) \ {key} |-> table[k]]

\* BaseParser::parse(filename, db) of the format parsers: a file that cannot
\* be opened gives ERROR_FILE_NOT_FOUND and leaves the database as it is; a
\* report file gives SUCCESS and its records are in the database
BaseParser_parse(parser, filename, db) ==
    IF FileNamed(filename).exists
    THEN [result |-> SUCCESS, db |-> db \cup {[parser |-> parser, filename |-> filename]}]
    ELSE [result |-> ERROR_FILE_NOT_FOUND, db |-> db]

\* what a call of the interface leaves in last_call and ret
DllCall(op, arg, val) ==
    /\ last_call' = Call(op, arg, FALSE)
    /\ ret' = [op |-> op, val |-> val]
    /\ UNCHANGED <<dbvars, now, hpvars_but_handles, poolvars>>

\* handle = next_handle_id++; table[handle] = object
NewHandle(op, table, object) ==
    /\ next_handle_id <= MaxHandles
    /\ table' = MapPut(table, next_handle_id, object)
    /\ next_handle_id' = next_handle_id + 1
    /\ held_handles' = held_handles \cup {next_handle_id}
    /\ DllCall(op, nullptr, next_handle_id)

create_coverage_database ==
    /\ NewHandle("create_coverage_database", database_handles, {})
    /\ UNCHANGED <<parser_handles, hp_parsers>>

destroy_coverage_database(handle) ==
    /\ database_handles' = IF handle # 0 /\ handle \in DOMAIN database_handles
                           THEN MapErase(database_handles, handle)
                           ELSE database_handles
    /\ UNCHANGED <<parser_handles, hp_parsers, next_handle_id, held_handles>>
    /\ DllCall("destroy_coverage_database", handle, nullptr)

create_dashboard_parser ==
    /\ NewHandle("create_dashboard_parser", parser_handles, "DashboardParser")
    /\ UNCHANGED <<hp_parsers, database_handles>>

dll_create_groups_parser ==
    /\ NewHandle("create_groups_parser", parser_handles, "GroupsParser")
    /\ UNCHANGED <<hp_parsers, database_handles>>

create_hierarchy_parser ==
    /\ NewHandle("create_hierarchy_parser", parser_handles, "HierarchyParser")
    /\ UNCHANGED <<hp_parsers, database_handles>>

create_modlist_parser ==
    /\ NewHandle("create_modlist_parser", parser_handles, "ModuleListParser")
    /\ UNCHANGED <<hp_parsers, database_handles>>

create_assert_parser ==
    /\ NewHandle("create_assert_parser", parser_handles, "AssertParser")
    /\ UNCHANGED <<hp_parsers, database_handles>>

create_high_performance_groups_parser ==
    /\ NewHandle("create_high_performance_groups_parser", hp_groups_parsers,
                 "HighPerformanceGroupsParser")
    /\ UNCHANGED <<parser_handles, hp_hierarchy_parsers, hp_assert_parsers,
                   database_handles>>

create_high_performance_hierarchy_parser ==
    /\ NewHandle("create_high_performance_hierarchy_parser", hp_hierarchy_parsers,
                 "HighPerformanceHierarchyParser")
    /\ UNCHANGED <<parser_handles, hp_groups_parsers, hp_assert_parsers,
                   database_handles>>

create_high_performance_assert_parser ==
    /\ NewHandle("create_high_performance_assert_parser", hp_assert_parsers,
                 "HighPerformanceAssertParser")
    /\ UNCHANGED <<parser_handles, hp_groups_parsers, hp_hierarchy_parsers,
                   database_handles>>

destroy_parser(handle) ==
    /\ parser_handles' = IF handle # 0 /\ handle \in DOMAIN parser_handles
                         THEN MapErase(parser_handles, handle)
                         ELSE parser_handles
    /\ UNCHANGED <<hp_parsers, database_handles, next_handle_id, held_handles>>
    /\ DllCall("destroy_parser", handle, nullptr)

\* parse_coverage_file: the result and the parsers whose parse it called
parse_coverage_file(parser_handle, filename, db_handle) ==
    LET arg == [parser_handle |-> parser_handle, filename |-> filename,
                db_handle |-> db_handle]
        Refused == /\ UNCHANGED dllvars
                   /\ DllCall("parse_coverage_file", arg,
                              [result |-> ERROR_INVALID_PARAMETER, parsed |-> {}])
    IN  IF parser_handle = 0 \/ filename = nullptr \/ db_handle = 0
        THEN Refused
        ELSE IF \/ parser_handle \notin DOMAIN parser_handles
                \/ db_handle \notin DOMAIN database_handles
        THEN Refused
        ELSE LET parsed == BaseParser_parse(parser_handles[parser_handle], filename[1],
                                            database_handles[db_handle])
             IN  /\ database_handles' = [database_handles EXCEPT ![db_handle] = parsed.db]
                 /\ UNCHANGED <<parser_handles, hp_parsers, next_handle_id, held_handles>>
                 /\ DllCall("parse_coverage_file", arg,
                            [result |-> parsed.result, parsed |-> {parser_handle}])

\* parse of the parallel parsers: a file that cannot be mapped gives
\* ERROR_FILE_NOT_FOUND before the database is touched
HighPerformanceParser_parse(parser, filename, db) ==
    IF is_valid_file(FileNamed(filename))
    THEN [result |-> SUCCESS, db |-> db \cup {[parser |-> parser, filename |-> filename]}]
    ELSE [result |-> ERROR_FILE_NOT_FOUND, db |-> db]

\* parse_coverage_file_high_performance: the result and the parsers whose
\* parse it called
parse_coverage_file_high_performance(parser_handle, filename, db_handle) ==
    LET arg == [parser_handle |-> parser_handle, filename |-> filename,
                db_handle |-> db_handle]
        Refused == /\ UNCHANGED dllvars
                   /\ DllCall("parse_coverage_file_high_performance", arg,
                              [result |-> ERROR_INVALID_PARAMETER, parsed |-> {}])
        Parsed(parser) ==
            LET parsed == HighPerformanceParser_parse(parser, filename[1],
                                                      database_handles[db_handle])
            IN  /\ database_handles' = [database_handles EXCEPT ![db_handle] = parsed.db]
                /\ UNCHANGED <<parser_handles, hp_parsers, next_handle_id, held_handles>>
                /\ DllCall("parse_coverage_file_high_performance", arg,
                           [result |-> parsed.result, parsed |-> {parser_handle}])
    IN  IF parser_handle = 0 \/ filename = nullptr \/ db_handle = 0
        THEN Refused
        ELSE IF db_handle \notin DOMAIN database_handles
        THEN Refused
        ELSE IF parser_handle \in DOMAIN hp_groups_parsers
        THEN Parsed(hp_groups_parsers[parser_handle])
        ELSE IF parser_handle \in DOMAIN hp_hierarchy_parsers
        THEN Parsed(hp_hierarchy_parsers[parser_handle])
        ELSE IF parser_handle \in DOMAIN hp_assert_parsers
        THEN Parsed(hp_assert_parsers[parser_handle])
        ELSE Refused

\* create_optimal_parser(filename, parser_type): the handle, 0 for nullptr.
\* The handle is taken before the class of the parser is looked at.
create_optimal_parser(filename, parser_type) ==
    LET arg == [filename |-> filename, parser_type |-> parser_type]
    IN  IF filename = nullptr \/ parser_type = nullptr \/ parser_type # <<"groups">>
        THEN /\ UNCHANGED dllvars
             /\ DllCall("create_optimal_parser", arg, 0)
        ELSE /\ next_handle_id <= MaxHandles
             /\ next_handle_id' = next_handle_id + 1
             /\ held_handles' = held_handles \cup {next_handle_id}
             /\ IF create_groups_parser(FileNamed(filename[1])) = "HighPerformanceGroupsParser"
                THEN /\ hp_groups_parsers' =
                           MapPut(hp_groups_parsers, next_handle_id,
                                  "HighPerformanceGroupsParser")
                     /\ UNCHANGED parser_handles
                ELSE /\ parser_handles' =
                           MapPut(parser_handles, next_handle_id, "GroupsParser")
                     /\ UNCHANGED hp_groups_parsers
             /\ UNCHANGED <<hp_hierarchy_parsers, hp_assert_parsers, database_handles>>
             /\ DllCall("create_optimal_parser", arg, next_handle_id)

cleanup_library ==
    /\ parser_handles' = EmptyMap
    /\ hp_groups_parsers' = EmptyMap
    /\ hp_hierarchy_parsers' = EmptyMap
    /\ hp_assert_parsers' = EmptyMap
    /\ database_handles' = EmptyMap
    /\ next_handle_id' = 1
    /\ UNCHANGED held_handles
    /\ DllCall("cleanup_library", nullptr, nullptr)

InitDll ==
    /\ DbInit
    /\ HpIdle
    /\ NoHandles
    /\ NoAllocators
    /\ file = File(FALSE, << >>, TRUE)
    /\ num_threads = 1

NextDll ==
    \/ create_coverage_database
    \/ \E handle \in Handles : destroy_coverage_database(handle)
    \/ create_dashboard_parser
    \/ dll_create_groups_parser
    \/ create_hierarchy_parser
    \/ create_modlist_parser
    \/ create_assert_parser
    \/ create_high_performance_groups_parser
    \/ create_high_performance_hierarchy_parser
    \/ create_high_performance_assert_parser
    \/ \E filename \in Filenames, parser_type \in ParserTypes :
          create_optimal_parser(filename, parser_type)
    \/ \E handle \in Handles : destroy_parser(handle)
    \/ \E parser_handle \in Handles, filename \in Filenames, db_handle \in Handles :
          parse_coverage_file(parser_handle, filename, db_handle)
    \/ \E parser_handle \in Handles, filename \in Filenames, db_handle \in Handles :
          parse_coverage_file_high_performance(parser_handle, filename, db_handle)
    \/ cleanup_library

SpecDll == InitDll /\ [][NextDll]_vars

----------------------------------------------------------------------------
(* MemoryPool under concurrent callers.  A std::size_t is written as the
   integer of least magnitude in its class modulo 2^w (w the width of
   std::size_t): 24 is 24 and -16 is SIZE_MAX - 15.  The sums below stay far
   from 2^(w-1), so that adding these integers is adding modulo 2^w; only the
   comparisons have to read a negative integer as a large value. *)

\* x <= y in std::size_t
SizeLeq(x, y) ==
    IF x >= 0
    THEN y < 0 \/ x <= y
    ELSE y < 0 /\ x <= y

\* std::max(x, y) in std::size_t
SizeMax(x, y) == IF SizeLeq(x, y) THEN y ELSE x

\* (x + alignment - 1) & ~(alignment - 1) for a power of two
AlignUp(x, alignment) ==
    (x + alignment - 1) - ((x + alignment - 1) % alignment)

\* MemoryPool::MemoryPool(chunk_size) when _aligned_malloc fails
MemoryPool_unallocated(chunk_size) ==
    [chunks_ |-> << >>, chunk_size_ |-> chunk_size, total_allocated_ |-> 0]

\* the first chunk that has room for aligned_size bytes, 0 for none
FirstFit(pool, aligned_size, alignment) ==
    LET fits == { i \in 1..Len(pool.chunks_) :
                    SizeLeq(AlignUp(pool.chunks_[i].used, alignment) + aligned_size,
                            pool.chunks_[i].size) }
    IN  IF fits = {} THEN 0 ELSE Min(fits)

\* MemoryPool::allocate(size, alignment) with the mutex held: the pool after
\* the call and the pointer returned, as a chunk and an offset in it
\* (nullptr when _aligned_malloc fails)
MemoryPool_allocate(pool, size, alignment, malloc_ok) ==
    LET aligned_size == AlignUp(size, alignment)
        i == FirstFit(pool, aligned_size, alignment)
        aligned_offset == AlignUp(pool.chunks_[i].used, alignment)
        new_chunk_size == SizeMax(pool.chunk_size_, aligned_size + alignment)
    IN  IF i # 0
        THEN [pool |-> [pool EXCEPT !.chunks_[i].used = aligned_offset + aligned_size],
              ptr |-> <<[chunk |-> i, offset |-> aligned_offset]>>]
        ELSE IF ~malloc_ok
        THEN [pool |-> pool, ptr |-> nullptr]
        ELSE [pool |-> [pool EXCEPT
                          !.chunks_ = Append(@, [size |-> new_chunk_size,
                                                 used |-> aligned_size]),
                          !.total_allocated_ = @ + new_chunk_size],
              ptr |-> <<[chunk |-> Len(pool.chunks_) + 1, offset |-> 0]>>]

\* the sizes and alignments of the callers: a few words, a whole chunk, and
\* SIZE_MAX - 15
SMALL_CHUNK == 2^6
AllocationSizes == {8, 24, 40, SMALL_CHUNK, 0 - 16}
Alignments == {8, 16}

\* a thread calls allocate(size, alignment) or reset(): it comes to the lock
call_allocate(t, size, alignment) ==
    /\ allocators[t].pc = "idle"
    /\ Len(regions) + Cardinality({ u \in DOMAIN allocators : allocators[u].pc # "idle" })
          < MaxAllocations
    /\ allocators' = [allocators EXCEPT ![t] =
                         [pc |-> "lock", op |-> "allocate", size |-> size,
                          alignment |-> alignment]]
    /\ UNCHANGED <<dbvars, now, last_call, ret, hpvars_but_handles, dllvars,
                   mutex_, regions>>

call_reset(t) ==
    /\ allocators[t].pc = "idle"
    /\ regions # << >>
    /\ allocators' = [allocators EXCEPT ![t] = [pc |-> "lock", op |-> "reset"]]
    /\ UNCHANGED <<dbvars, now, last_call, ret, hpvars_but_handles, dllvars,
                   mutex_, regions>>

\* std::lock_guard<std::mutex> lock(mutex_)
lock(t) ==
    /\ allocators[t].pc = "lock"
    /\ mutex_ = 0
    /\ mutex_' = t
    /\ allocators' = [allocators EXCEPT ![t].pc = "locked"]
    /\ UNCHANGED <<dbvars, now, last_call, ret, hpvars_but_handles, dllvars, regions>>

PoolUnchanged ==
    UNCHANGED <<dbvars, now, last_call, ret, file, num_threads, hp_pc, chunks, workers,
                stats_, next_future, total_groups, hp_result, first_parse, seq_db,
                dllvars>>

\* the body of allocate up to its return, where the guard releases the mutex.
\* _aligned_malloc fails for a size of half the address space or more, and
\* may fail for any size.
allocate(t) ==
    /\ allocators[t].pc = "locked"
    /\ allocators[t].op = "allocate"
    /\ mutex_ = t
    /\ \E malloc_ok \in BOOLEAN :
         LET aligned_size == AlignUp(allocators[t].size, allocators[t].alignment)
             r == MemoryPool_allocate(memory_pool_, allocators[t].size,
                                      allocators[t].alignment, malloc_ok)
         IN  /\ malloc_ok =>
                  /\ Len(memory_pool_.chunks_) < MaxChunks
                  /\ SizeMax(memory_pool_.chunk_size_,
                             aligned_size + allocators[t].alignment) > 0
             /\ memory_pool_' = r.pool
             /\ regions' = IF r.ptr = nullptr THEN regions
                           ELSE Append(regions, [chunk |-> r.ptr[1].chunk,
                                                 offset |-> r.ptr[1].offset,
                                                 size |-> allocators[t].size])
    /\ pool_calls' = pool_calls \cup {"allocate"}
    /\ mutex_' = 0
    /\ allocators' = [allocators EXCEPT ![t] = [pc |-> "idle"]]
    /\ PoolUnchanged

\* the body of reset up to its return
reset_pool(t) ==
    /\ allocators[t].pc = "locked"
    /\ allocators[t].op = "reset"
    /\ mutex_ = t
    /\ memory_pool_' = MemoryPool_reset(memory_pool_)
    /\ regions' = << >>
    /\ pool_calls' = pool_calls \cup {"reset"}
    /\ mutex_' = 0
    /\ allocators' = [allocators EXCEPT ![t] = [pc |-> "idle"]]
    /\ PoolUnchanged

InitPool ==
    /\ DbInit
    /\ ParserIdle
    /\ NoHandles
    /\ NoAllocators
    /\ memory_pool_ \in {MemoryPool(SMALL_CHUNK), MemoryPool_unallocated(SMALL_CHUNK)}
    /\ pool_calls = {"MemoryPool"}
    /\ file = File(FALSE, << >>, TRUE)
    /\ num_threads = MaxThreads

NextPool ==
    \/ \E t \in 1..MaxThreads, size \in AllocationSizes, alignment \in Alignments :
          call_allocate(t, size, alignment)
    \/ \E t \in 1..MaxThreads : call_reset(t)
    \/ \E t \in 1..MaxThreads : lock(t)
    \/ \E t \in 1..MaxThreads : allocate(t)
    \/ \E t \in 1..MaxThreads : reset_pool(t)

SpecPool == InitPool /\ [][NextPool]_vars

----------------------------------------------------------------------------
(* Claims about the database *)

AddOps == {"add_coverage_group", "add_hierarchy_instance",
           "add_module_definition", "add_assert_coverage"}

\* What one add_* call with a non-empty key k must do to its collection:
\* k maps to the record, every other key maps to what it mapped to, and the
\* count grows by one exactly when k was absent.
Stored(before, after, k, rec) ==
    /\ k \in DOMAIN after /\ after[k] = rec
    /\ \A j \in (DOMAIN before \cup DOMAIN after) \ {k} :
          j \in DOMAIN before /\ j \in DOMAIN after /\ after[j] = before[j]
    /\ Cardinality(DOMAIN after) =
          Cardinality(DOMAIN before) + (IF k \in DOMAIN before THEN 0 ELSE 1)

\* the key of the record that the last add_* call was given
ArgKey ==
    CASE last_call.op = "add_coverage_group" -> last_call.arg[1].name
      [] last_call.op = "add_hierarchy_instance" -> last_call.arg[1].instance_path
      [] last_call.op = "add_module_definition" -> last_call.arg[1].module_name
      [] last_call.op = "add_assert_coverage" -> last_call.arg[1].assert_name

\* the step is the add_* call that last_call' records, given a record with
\* a non-empty key
IsStore(op) ==
    /\ last_call'.op = op
    /\ last_call'.arg # nullptr
    /\ ArgKey' # EmptyStr
    /\ CASE op = "add_coverage_group" -> db_add_coverage_group(last_call'.arg)
         [] op = "add_hierarchy_instance" -> db_add_hierarchy_instance(last_call'.arg)
         [] op = "add_module_definition" -> db_add_module_definition(last_call'.arg)
         [] op = "add_assert_coverage" -> db_add_assert_coverage(last_call'.arg)

C1_Step ==
    /\ IsStore("add_coverage_group") =>
          /\ Stored(groups_table, groups_table', ArgKey', last_call'.arg[1])
          /\ find_coverage_group(ArgKey)' = last_call'.arg
    /\ IsStore("add_hierarchy_instance") =>
          /\ Stored(hierarchy_table, hierarchy_table', ArgKey', last_call'.arg[1])
          /\ find_hierarchy_instance(ArgKey)' = last_call'.arg
    /\ IsStore("add_module_definition") =>
          /\ Stored(modules_table, modules_table', ArgKey', last_call'.arg[1])
          /\ find_module_definition(ArgKey)' = last_call'.arg
    /\ IsStore("add_assert_coverage") =>
          /\ Stored(asserts_table, asserts_table', ArgKey', last_call'.arg[1])
          /\ find_assert_coverage(ArgKey)' = last_call'.arg

\* C1: an add_* call with a non-empty key k stores the record under k and
\* replaces what was there (last write wins): find_*(k) then returns exactly
\* that record, every other key keeps its record, and the count of the
\* collection grows by one exactly when k was absent; for all four kinds.
C1_LastWriteWins == [][C1_Step]_vars

\* a group was overwritten by a different record while another group is stored
C1_Witness ==
    /\ last_call.op = "add_coverage_group"
    /\ last_call.replaced
    /\ last_call.arg # nullptr
    /\ find_coverage_group(last_call.arg[1].name) = last_call.arg
    /\ Cardinality(DOMAIN groups_table) = 2
    /\ \E j \in DOMAIN groups_table :
          groups_table[j].coverage # last_call.arg[1].coverage

\* the step is the add_* call that last_call' records, given no record or
\* a record with an empty key
IsRejected(op) ==
    /\ last_call'.op = op
    /\ (last_call'.arg = nullptr \/ ArgKey' = EmptyStr)
    /\ CASE op = "add_coverage_group" -> db_add_coverage_group(last_call'.arg)
         [] op = "add_hierarchy_instance" -> db_add_hierarchy_instance(last_call'.arg)
         [] op = "add_module_definition" -> db_add_module_definition(last_call'.arg)
         [] op = "add_assert_coverage" -> db_add_assert_coverage(last_call'.arg)

C2_Step == \A op \in AddOps : IsRejected(op) => UNCHANGED dbvars

\* C2: add_* with a record whose key is empty, or with no record, changes
\* nothing: the four collections, the dashboard record and last_modified
\* stay as they were.
C2_EmptyKeyNoOp == [][C2_Step]_vars

\* an empty-key group was offered to a populated database at a time when a
\* touch of last_modified would have shown
C2_Witness ==
    /\ last_call.op = "add_coverage_group"
    /\ last_call.arg # nullptr
    /\ last_call.arg[1].name = EmptyStr
    /\ DOMAIN groups_table # {}
    /\ dashboard_data # nullptr
    /\ last_modified < now

AllEmpty ==
    /\ DOMAIN groups_table = {} /\ DOMAIN hierarchy_table = {}
    /\ DOMAIN modules_table = {} /\ DOMAIN asserts_table = {}

SomeEmptyKey ==
    \/ \E k \in DOMAIN groups_table : groups_table[k].name = EmptyStr
    \/ \E k \in DOMAIN hierarchy_table : hierarchy_table[k].instance_path = EmptyStr
    \/ \E k \in DOMAIN modules_table : modules_table[k].module_name = EmptyStr
    \/ \E k \in DOMAIN asserts_table : asserts_table[k].assert_name = EmptyStr

SomeImpossibleGroup ==
    \E k \in DOMAIN groups_table :
        /\ groups_table[k].coverage.expected = Zero
        /\ groups_table[k].coverage.covered # Zero

RECURSIVE TrueSums(_, _)
TrueSums(names, acc) ==
    IF names = {} THEN acc
    ELSE LET n == CHOOSE x \in names : TRUE
             c == groups_table[n].coverage
         IN  TrueSums(names \ {n},
                      [covered |-> BigAdd(acc.covered, c.covered),
                       expected |-> BigAdd(acc.expected, c.expected)])

S_covered == TrueSums(DOMAIN groups_table, [covered |-> Zero, expected |-> Zero]).covered
S_expected == TrueSums(DOMAIN groups_table, [covered |-> Zero, expected |-> Zero]).expected

\* C5: calculate_overall_score() equals 100 * S_covered / S_expected, the
\* sums being the true sums over all stored groups, and 0.0 when there is no
\* group or S_expected is 0.
C5_OverallScore ==
    ret.op = "calculate_overall_score" =>
        FracEq(ret.val,
               IF S_expected = Zero THEN FZero
               ELSE Fraction(BigMul(Big(100), S_covered), S_expected))

GroupsWhere(P(_)) == Cardinality({k \in DOMAIN groups_table : P(groups_table[k])})

IsZeroCoverage(g) == g.coverage.expected # Zero /\ g.coverage.covered = Zero
IsFullCoverage(g) == g.coverage.expected # Zero /\ g.coverage.covered = g.coverage.expected

\* C6 as claimed: a group with expected == 0 is counted in neither
\* num_zero_coverage_groups nor num_full_coverage_groups; a group with
\* expected > 0 is zero-coverage iff covered == 0 and full-coverage iff
\* covered == expected.
C6_EmptyGroupsUncounted ==
    ret.op = "generate_statistics" =>
        /\ ret.val.num_zero_coverage_groups = GroupsWhere(IsZeroCoverage)
        /\ ret.val.num_full_coverage_groups = GroupsWhere(IsFullCoverage)

HasNoCovered(g) == g.coverage.covered = Zero
IsCoveredInFull(g) == g.coverage.covered # Zero /\ g.coverage.covered = g.coverage.expected

\* C6 as amended: generate_statistics() counts a group as zero-coverage iff
\* covered == 0, whatever expected is (an empty 0/0 group is a zero-coverage
\* group), and as full-coverage iff covered > 0 and covered == expected; no
\* group is counted in both.
C6_Classification ==
    ret.op = "generate_statistics" =>
        /\ ret.val.num_zero_coverage_groups = GroupsWhere(HasNoCovered)
        /\ ret.val.num_full_coverage_groups = GroupsWhere(IsCoveredInFull)
        /\ ret.val.num_zero_coverage_groups + ret.val.num_full_coverage_groups
              <= Cardinality(DOMAIN groups_table)

\* statistics of a database that holds an empty 0/0 group and a full group
C6_Witness ==
    /\ ret.op = "generate_statistics"
    /\ \E k \in DOMAIN groups_table :
          groups_table[k].coverage.covered = Zero /\ groups_table[k].coverage.expected = Zero
    /\ \E k \in DOMAIN groups_table : IsCoveredInFull(groups_table[k])
    /\ ret.val.num_zero_coverage_groups = 1
    /\ ret.val.num_full_coverage_groups = 1

----------------------------------------------------------------------------
(* Claims about the parallel pipeline *)

\* the database holds the same keys with the same field values
SameGroups(t1, t2) == t1 = t2

\* C7: when parse has returned SUCCESS twice for the same file and database,
\* the groups of the database (keys and all field values) are those that the
\* first call left.
C7_IdempotentReparse ==
    (hp_pc = "reparsed" /\ hp_result = SUCCESS /\ first_parse[1].result = SUCCESS)
        => SameGroups(groups_table, first_parse[1].groups_table)

\* the second parse of a file of 1 MB or more with two threads has returned
\* and the database holds the groups it merged
C7_Witness ==
    /\ hp_pc = "reparsed"
    /\ hp_result = SUCCESS
    /\ first_parse[1].result = SUCCESS
    /\ stats_.file_size_bytes >= SMALL_FILE_LIMIT
    /\ stats_.threads_used >= 2
    /\ total_groups >= 2
    /\ Name_a \in DOMAIN groups_table

\* the (name, covered, expected, score) tuples of a database
Tuples(table) ==
    { <<table[k].name, table[k].coverage.covered, table[k].coverage.expected,
        table[k].coverage.score>> : k \in DOMAIN table }

SameTuple(x, y) ==
    x[1] = y[1] /\ x[2] = y[2] /\ x[3] = y[3] /\ FracEq(x[4], y[4])

\* C8: the sequential parser and the parallel pipeline, each on the same
\* file and an empty database, leave the same (name, covered, expected,
\* score) tuples, whatever the thread count (1 or more).
C8_SequentialEquivalence ==
    (num_threads >= 1 /\ seq_db # << >> /\ seq_db[1].result = SUCCESS
        /\ first_parse # << >> /\ first_parse[1].result = SUCCESS)
        => /\ \A x \in Tuples(seq_db[1].groups_table) :
                 \E y \in Tuples(first_parse[1].groups_table) : SameTuple(x, y)
           /\ \A y \in Tuples(first_parse[1].groups_table) :
                 \E x \in Tuples(seq_db[1].groups_table) : SameTuple(x, y)

AtLineStart(f, p) == p = 0 \/ (p - 1) \in Newlines(f)

AtLineEnd(f, p) == p = FileSize(f) \/ (p - 1) \in Newlines(f)

InRange(chunk, p) == chunk.line_start <= p /\ p < chunk.line_end

\* Every byte of the file lies in a range: were a byte outside all ranges, the
\* first such byte would be byte 0 or the byte at which a range ends.
CoversFile(f, cs) ==
    \A p \in {0} \cup { cs[i].line_end : i \in 1..Len(cs) } :
        p < FileSize(f) => \E i \in 1..Len(cs) : InRange(cs[i], p)

\* one past the last byte of line i, its '\n' included
LineEnd(f, i) == IF HasNewline(f, i) THEN NewlineAt(f, i) + 1 ELSE FileSize(f)

LineInside(f, chunk, i) ==
    chunk.line_start <= LineStart(f, i) /\ LineEnd(f, i) <= chunk.line_end

\* C9: for a valid non-empty file and a thread count of 1 or more, every
\* range [line_start, line_end) of create_chunks starts at 0 or after a
\* newline and ends after a newline or at the end of the file, the ranges
\* cover every byte, and every line lies inside one of the ranges.
C9_LineAligned ==
    (hp_pc = "chunked" /\ is_valid_file(file) /\ num_threads >= 1)
        => /\ \A i \in 1..Len(chunks) :
                 /\ AtLineStart(file, chunks[i].line_start)
                 /\ AtLineEnd(file, chunks[i].line_end)
           /\ CoversFile(file, chunks)
           /\ \A l \in 1..Len(file.lines) :
                 \E i \in 1..Len(chunks) : LineInside(file, chunks[i], l)

\* two or more ranges of a file of several lines, one moved back to the
\* start of a line and one moved forward to the end of a line
C9_Witness ==
    /\ hp_pc = "chunked"
    /\ num_threads >= 2
    /\ Len(chunks) >= 2
    /\ Len(file.lines) >= 2
    /\ \E i \in 1..Len(chunks) : chunks[i].line_start < chunks[i].start_offset
    /\ \E i \in 1..Len(chunks) : chunks[i].end_offset < chunks[i].line_end

\* the locations that the next step of task w reads or writes
Accesses(w) ==
    CASE workers[w].pc = "scan" ->
            {<<"groups", w>>}
            \cup (IF Pushes(file.lines[Head(workers[w].todo)])
                  THEN {<<"stats_.lines_processed">>} ELSE {})
      [] workers[w].pc = "store" -> {<<"stats_.lines_processed">>}
      [] OTHER -> {}

\* the locations that the next step of task w writes
Writes(w) ==
    CASE workers[w].pc = "scan" -> {<<"groups", w>>}
      [] workers[w].pc = "store" -> {<<"stats_.lines_processed">>}
      [] OTHER -> {}

\* C10: at no point of the parallel phase are two tasks about to access the
\* same location with one of the two accesses a write.
C10_NoSharedMutableState ==
    \A w1 \in 1..Len(workers) : \A w2 \in 1..Len(workers) :
        w1 # w2 => Writes(w1) \cap Accesses(w2) = {}

\* a chunk task that has not returned yet
Running(w) == workers[w].pc # "done"

\* the step stores a group in the database during parse
Inserts == hp_pc = "collect" /\ groups_table' # groups_table

C11_Step == Inserts => \A w \in 1..Len(workers) : ~Running(w)

\* C11: parse stores a group in the database only when every chunk task has
\* returned.
C11_MergeAfterWorkers == [][C11_Step]_vars

\* the path does not exist, the file has zero length or the mapping fails
CannotBeMapped(f) == ~f.exists \/ FileSize(f) = 0 \/ ~f.mappable

\* the step is a call of parse
IsParseCall == hp_pc \in {"idle", "returned"} /\ hp_pc' # hp_pc

C12_Step ==
    (IsParseCall /\ CannotBeMapped(file))
        => /\ hp_result' = ERROR_FILE_NOT_FOUND
           /\ hp_pc' \in {"returned", "reparsed"}
           /\ workers' = << >>
           /\ UNCHANGED dbvars

\* C12: a call of parse on a file that cannot be mapped returns
\* ERROR_FILE_NOT_FOUND in the same step, with no task started and the
\* database as it was.
C12_FileNotFound == [][C12_Step]_vars

\* parse has returned ERROR_FILE_NOT_FOUND for an existing file of length 0
C12_Witness ==
    /\ hp_pc \in {"returned", "reparsed"}
    /\ hp_result = ERROR_FILE_NOT_FOUND
    /\ file.exists /\ file.mappable /\ FileSize(file) = 0
    /\ workers = << >>
    /\ groups_table = EmptyMap

\* C13: create_groups_parser makes the high-performance parser exactly for
\* a file that can be opened and is larger than the 10 MB threshold; for a
\* file of the threshold size or less, or one that cannot be opened, it
\* makes the sequential GroupsParser.
C13_FactoryThreshold ==
    ret.op = "create_groups_parser"
        => (ret.val = "HighPerformanceGroupsParser"
               <=> (file.exists /\ FileSize(file) > OPTIMIZATION_THRESHOLD))

C14_Step ==
    (IsParseCall /\ first_parse # << >>)
        => /\ stats_'.lines_processed = 0
           /\ stats_'.groups_parsed = 0
           /\ stats_'.memory_allocated = 0
           /\ "reset" \in pool_calls'
           /\ memory_pool_' = MemoryPool_reset(memory_pool_)

\* C14: a call of parse on a parser that has parsed before starts from
\* statistics without the counts of the earlier call and calls reset() on the
\* memory pool, whose chunks are kept with their use at 0.
C14_ResetPerParse == [][C14_Step]_vars

Abs(x) == IF x < 0 THEN 0 - x ELSE x

\* score == 100 * covered / expected within 0.01 when expected > 0, and
\* score == 0 when expected == 0; the score is the fraction num / den
ScoreLaw(coverage) ==
    LET num == BigVal(coverage.score.num)
        den == BigVal(coverage.score.den)
        covered == BigVal(coverage.covered)
        expected == BigVal(coverage.expected)
    IN  IF expected > 0
        THEN 100 * Abs(num * expected - 100 * covered * den) <= den * expected
        ELSE num = 0

\* C15: the group that parse_group_line_optimized builds from a line it
\* accepts, with a name under which the database stores it, obeys the score
\* law of CoverageMetric.
C15_ScoreLaw ==
    (ret.op = "parse_group_line_optimized" /\ ret.val.result = SUCCESS
        /\ ret.val.group.name # EmptyStr /\ ret.val.group.coverage.is_valid)
        => ScoreLaw(ret.val.group.coverage)

Dots(path) == { i \in 1..Len(path) : path[i] = "." }

\* C16: depth_level is the number of '.' of instance_path; with a '.' in the
\* path, module_name has no '.' and parent, '.', module_name spell the path;
\* without one, module_name is the path and the parent is empty.
C16_HierarchyFields ==
    ret.op = "HierarchyInstance"
        => /\ ret.val.depth_level = Cardinality(Dots(last_call.arg))
           /\ IF Dots(last_call.arg) # {}
              THEN /\ Dots(ret.val.module_name) = {}
                   /\ ret.val.parent_path \o <<".">> \o ret.val.module_name
                         = last_call.arg
              ELSE /\ ret.val.module_name = last_call.arg
                   /\ ret.val.parent_path = EmptyStr

\* a path like top.cpu.alu: depth 2, a module name and a parent with a '.'
C16_Witness ==
    /\ ret.op = "HierarchyInstance"
    /\ ret.val.depth_level = 2
    /\ ret.val.module_name # EmptyStr
    /\ Dots(ret.val.parent_path) # {}
    /\ ret.val.parent_path[1] # "."

Occurrences(str, c) == Cardinality({ i \in 1..Len(str) : str[i] = c })

\* C17: split(s, d) returns one field more than s has occurrences of d, and
\* the fields joined with d give back s; the empty string gives one empty field.
C17_SplitPreservesFields ==
    ret.op = "split"
        => /\ Len(ret.val) = Occurrences(last_call.arg.str, last_call.arg.delimiter) + 1
           /\ Join(ret.val, <<last_call.arg.delimiter>>) = last_call.arg.str

\* digits, optionally a point and digits, one digit at least, nothing else
IsDecimal(text) ==
    \E n \in 0..Len(text), m \in 0..Len(text) :
        /\ n + m > 0
        /\ \/ n = Len(text) /\ m = 0
           \/ n + 1 + m = Len(text) /\ text[n + 1] = "."
        /\ \A i \in 1..n : IsDigit(text[i])
        /\ \A i \in (n + 2)..(n + 1 + m) : IsDigit(text[i])

\* the trimmed text without one trailing '%'
Remainder(text) ==
    IF trim(text) # << >> /\ trim(text)[Len(trim(text))] = "%"
    THEN SubSeq(trim(text), 1, Len(trim(text)) - 1)
    ELSE trim(text)

\* C18: parse_percentage never faults, and it returns the negative sentinel
\* for every text that is empty, has only whitespace, or whose remainder
\* (trimmed, one trailing '%' removed) is not a number.
C18_PercentageSentinel ==
    ret.op = "parse_percentage"
        => /\ ~ret.val.fault
           /\ ~IsDecimal(trim(Remainder(last_call.arg))) => ret.val.val.num < 0

\* parse_coverage_file must refuse these arguments: a parser handle or a
\* database handle that is null or not in its table, a null or empty path
MustRefuse(arg) ==
    \/ arg.parser_handle = 0
    \/ arg.parser_handle \notin DOMAIN parser_handles
    \/ arg.db_handle = 0
    \/ arg.db_handle \notin DOMAIN database_handles
    \/ arg.filename = nullptr
    \/ arg.filename = <<EmptyStr>>

\* C19: parse_coverage_file returns ERROR_INVALID_PARAMETER, calls no parser
\* and leaves every database as it is when a handle is null or not a live
\* handle of the right kind, or the path is null or empty.
C19_Step ==
    (last_call'.op = "parse_coverage_file" /\ MustRefuse(last_call'.arg))
        => /\ ret'.val.result = ERROR_INVALID_PARAMETER
           /\ ret'.val.parsed = {}
           /\ database_handles' = database_handles
C19_InvalidParameter == [][C19_Step]_vars

\* the last line of the file has no '\n' and is a row from which parse_chunk
\* makes a group when it visits it
UnterminatedRow(f) ==
    /\ f.lines # << >>
    /\ ~f.terminated
    /\ Pushes(f.lines[Len(f.lines)])

\* C20: a group row at the end of the file without a trailing '\n' is
\* processed: after a successful parse its group is in the database.
C20_FinalLineProcessed ==
    (num_threads >= 1 /\ first_parse # << >> /\ first_parse[1].result = SUCCESS
        /\ UnterminatedRow(file))
        => parse_group_line_optimized(LineText(file.lines[Len(file.lines)])).group.name
              \in DOMAIN first_parse[1].groups_table

\* the whitespace-delimited tokens of a line, the last of them, and the
\* number that a token of digits denotes
Fields(line) == split_whitespace(line)

LastField(line) == Fields(line)[Len(Fields(line))]

FieldValue(line, i) == BigVal(DigitsNumber(Fields(line)[i + 1], Zero))

\* C21: the name of a record that parse_group_line_optimized builds is the
\* last whitespace-delimited token of the line, whatever the number of
\* comment words before it.
C21_NameIsLastToken ==
    (ret.op = "parse_group_line_optimized" /\ ret.val.result = SUCCESS)
        => ret.val.group.name = LastField(last_call.arg)

\* C22: a line with the ten numeric fields and a name is accepted, with or
\* without comment words, and the record has weight from token 4 and goal
\* from token 5 (covered, expected, score, instances come first).
C22_FieldPositions ==
    ret.op = "parse_group_line_optimized"
        => /\ ret.val.result = SUCCESS
           /\ BigVal(ret.val.group.coverage.covered) = FieldValue(last_call.arg, 0)
           /\ BigVal(ret.val.group.coverage.expected) = FieldValue(last_call.arg, 1)
           /\ BigVal(ret.val.group.weight) = FieldValue(last_call.arg, 4)
           /\ BigVal(ret.val.group.goal) = FieldValue(last_call.arg, 5)

\* a non-empty string of decimal digits whose value is at most 2^32 - 1
IsUint32Text(token) ==
    /\ token # << >>
    /\ \A i \in 1..Len(token) : IsDigit(token[i])
    /\ U32(DigitsNumber(token, Zero)) = DigitsNumber(token, Zero)

\* C23: parse_uint_simd succeeds exactly on the non-empty strings of decimal
\* digits with a value of at most 2^32 - 1, and then returns that value, on
\* the fast path (at most 8 bytes) and on the fallback alike.
C23_UintExact ==
    ret.op = "parse_uint_simd"
        => /\ ret.val.ok = IsUint32Text(last_call.arg)
           /\ ret.val.ok => ret.val.result = DigitsNumber(last_call.arg, Zero)

\* the sum of the sizes of the chunks
RECURSIVE SumSizes(_)
SumSizes(chunks_) ==
    IF chunks_ = << >> THEN 0 ELSE Head(chunks_).size + SumSizes(Tail(chunks_))

\* the region lies inside its chunk
Inside(region) ==
    /\ region.chunk \in 1..Len(memory_pool_.chunks_)
    /\ region.size >= 0
    /\ region.offset >= 0
    /\ region.offset + region.size <= memory_pool_.chunks_[region.chunk].size

\* two regions have no byte in common
DisjointRegions(r, q) ==
    \/ r.chunk # q.chunk
    \/ r.offset + r.size <= q.offset
    \/ q.offset + q.size <= r.offset

\* C24: whatever the interleaving of the allocate calls, each chunk has
\* 0 <= used <= size, total_allocated is the sum of the chunk sizes, and the
\* regions returned since the last reset lie inside their chunks and are
\* pairwise disjoint.
C24_PoolConsistent ==
    /\ \A i \in 1..Len(memory_pool_.chunks_) :
          /\ memory_pool_.chunks_[i].used >= 0
          /\ memory_pool_.chunks_[i].used <= memory_pool_.chunks_[i].size
    /\ memory_pool_.total_allocated_ = SumSizes(memory_pool_.chunks_)
    /\ \A i \in 1..Len(regions) : Inside(regions[i])
    /\ \A i \in 1..Len(regions), j \in 1..Len(regions) :
          i < j => DisjointRegions(regions[i], regions[j])

\* C25: get_path_components returns the path split on '.', in order: the
\* components joined with '.' spell the path, and there are depth_level + 1
\* of them.
C25_PathComponents ==
    ret.op = "get_path_components"
        => /\ Len(ret.val) = calculate_depth_level(last_call.arg) + 1
           /\ Join(ret.val, <<".">>) = last_call.arg

\* C26: for a valid non-empty file and every thread count, 0 included, the
\* call of create_chunks ends in no arithmetic fault and returns one range
\* or more.
C26_ChunksForEveryThreadCount ==
    (is_valid_file(file) /\ FileSize(file) > 0)
        => /\ hp_pc # "crashed"
           /\ hp_pc = "chunked" => Len(chunks) >= 1

\* the ranges [line_start, line_end) of two chunks share no byte
DisjointChunks(c1, c2) == c1.line_end <= c2.line_start \/ c2.line_end <= c1.line_start

\* the lines of the file for which a record is made
RecordLines == { l \in 1..Len(file.lines) : Pushes(file.lines[l]) }

\* C27: the ranges that create_chunks returned are pairwise disjoint, every
\* line is visited by exactly one chunk task, and after a successful parse
\* stats_.groups_parsed is the number of lines that make a record.
C27_EachLineOnce ==
    /\ hp_pc = "collect"
          => /\ \A i, j \in 1..Len(chunks) :
                   i < j => DisjointChunks(chunks[i], chunks[j])
             /\ \A l \in 1..Len(file.lines) :
                   Cardinality({ w \in 1..Len(chunks) :
                                   \E k \in 1..Len(ChunkLines(file, chunks[w])) :
                                       ChunkLines(file, chunks[w])[k] = l }) = 1
    /\ (hp_pc \in {"returned", "reparsed"} /\ hp_result = SUCCESS)
          => stats_.groups_parsed = Cardinality(RecordLines)

\* the group that parse_chunk makes of line l of the file
GroupOfLine(l) == parse_group_line_optimized(LineText(file.lines[l])).group

\* the groups of a chunk in the order of its lines
ChunkGroups(chunk) ==
    LET pushed == SelectSeq(ChunkLines(file, chunk), LAMBDA l : Pushes(file.lines[l]))
    IN  [k \in 1..Len(pushed) |-> GroupOfLine(pushed[k])]

\* the table after the groups of the first n chunks went in, chunk by chunk
RECURSIVE MergedChunks(_, _)
MergedChunks(table, n) ==
    IF n = 0 THEN table
    ELSE AddAll(MergedChunks(table, n - 1), ChunkGroups(chunks[n])).table

\* the database as the call of parse found it
TableBefore == IF first_parse = << >> THEN EmptyMap ELSE first_parse[1].groups_table

\* the lines in the chunks that make a group with a name
StoredLines ==
    { l \in 1..Len(file.lines) :
        /\ \E i \in 1..Len(chunks) : \E k \in 1..Len(ChunkLines(file, chunks[i])) :
              ChunkLines(file, chunks[i])[k] = l
        /\ Pushes(file.lines[l])
        /\ GroupOfLine(l).name # EmptyStr }

Live(handle) ==
    handle \in DOMAIN parser_handles \cup DOMAIN hp_groups_parsers
               \cup DOMAIN hp_hierarchy_parsers \cup DOMAIN hp_assert_parsers
               \cup DOMAIN database_handles

\* the caller holds the handle and it is in no table: it was destroyed by
\* destroy_* or by cleanup_library
Stale(handle) == handle \in held_handles /\ ~Live(handle)

C29_Step == \A handle \in 1..MaxHandles : Stale(handle) => Stale(handle)'

\* C29: a handle value never comes to denote another object: a handle that
\* was handed out and is in no table any more (destroy_* or cleanup_library)
\* stays out of every table, so that no entry point resolves it to an
\* object created later.
C29_HandlesNeverReused == [][C29_Step]_vars

\* the call that returned before this step is destroy_parser(handle)
Destroyed(handle) == last_call.op = "destroy_parser" /\ last_call.arg = handle

C30_Step ==
    /\ last_call'.op = "destroy_parser"
          => last_call'.arg \notin
                 DOMAIN parser_handles' \cup DOMAIN hp_groups_parsers'
                 \cup DOMAIN hp_hierarchy_parsers' \cup DOMAIN hp_assert_parsers'
    /\ \A handle \in Handles :
          (/\ Destroyed(handle)
           /\ last_call'.op \in {"parse_coverage_file",
                                 "parse_coverage_file_high_performance"}
           /\ last_call'.arg.parser_handle = handle)
              => /\ ret'.val.result = ERROR_INVALID_PARAMETER
                 /\ ret'.val.parsed = {}

\* C30: when destroy_parser(h) has returned, h is in none of the parser
\* tables, whichever function handed it out, and a call of parse_coverage_file
\* or parse_coverage_file_high_performance with h that follows is refused
\* with ERROR_INVALID_PARAMETER and calls no parser.
C30_DestroyReleases == [][C30_Step]_vars

====
